---- MODULE Spec2Model ----
(***************************************************************************)
(* The Tetromino distractor of cogandmem (src/cogandmem/tetromino.py):     *)
(* the shape templates, the GameBoard and Piece classes, and the loop of   *)
(* distractor().                                                           *)
(*                                                                         *)
(* Python lists are modelled as sequences: the Python item l[i] is the     *)
(* element PyIndex(l, i) of the sequence, a negative i counting from the   *)
(* end as Python does, and an i outside -len..len-1 raising IndexError.    *)
(* Times are in milliseconds.                                              *)
(***************************************************************************)
EXTENDS Integers, Sequences, FiniteSets, TLC

\* ------------------------------------------------------------------------
\* Game constants (tetromino.py 92-97), in lines, milliseconds and cells.
LINES_PER_LEVEL == 10
BASE_FALL_FREQUENCY == 350
FALL_FREQUENCY_INCREASE_PER_LEVEL == 10
NEW_PIECES_START_Y == -2
MOVE_SIDEWAYS_FREQUENCY == 150
MOVE_DOWN_FREQUENCY == 100

\* len(COLOURS), tetromino.py 123.
NUM_COLOURS == 4

\* BLANK is the string "." in the source; board cells hold BLANK or an index
\* of COLOURS, so BLANK is encoded as an integer outside 0..3. BOX stands for
\* the letter "O" of a template.
BLANK == -1
BOX == 1
TEMPLATE_WIDTH == 5
TEMPLATE_HEIGHT == 5

\* The defaults of GameBoard.__init__ and distractor, and the numbers that
\* GameBoard.__init__ assigns to self.columns and self.rows.
DEFAULT_COLUMNS == 10
DEFAULT_ROWS == 20
INIT_COLUMNS == 10
INIT_ROWS == 20

\* ------------------------------------------------------------------------
\* Shape templates: Template[orientation + 1][y + 1][x + 1].
S_SHAPE_TEMPLATE ==
    <<
      <<
         <<BLANK, BLANK, BLANK, BLANK, BLANK>>,
         <<BLANK, BLANK, BLANK, BLANK, BLANK>>,
         <<BLANK, BLANK, BOX, BOX, BLANK>>,
         <<BLANK, BOX, BOX, BLANK, BLANK>>,
         <<BLANK, BLANK, BLANK, BLANK, BLANK>>
      >>,
      <<
         <<BLANK, BLANK, BLANK, BLANK, BLANK>>,
         <<BLANK, BLANK, BOX, BLANK, BLANK>>,
         <<BLANK, BLANK, BOX, BOX, BLANK>>,
         <<BLANK, BLANK, BLANK, BOX, BLANK>>,
         <<BLANK, BLANK, BLANK, BLANK, BLANK>>
      >>
    >>

Z_SHAPE_TEMPLATE ==
    <<
      <<
         <<BLANK, BLANK, BLANK, BLANK, BLANK>>,
         <<BLANK, BLANK, BLANK, BLANK, BLANK>>,
         <<BLANK, BOX, BOX, BLANK, BLANK>>,
         <<BLANK, BLANK, BOX, BOX, BLANK>>,
         <<BLANK, BLANK, BLANK, BLANK, BLANK>>
      >>,
      <<
         <<BLANK, BLANK, BLANK, BLANK, BLANK>>,
         <<BLANK, BLANK, BOX, BLANK, BLANK>>,
         <<BLANK, BOX, BOX, BLANK, BLANK>>,
         <<BLANK, BOX, BLANK, BLANK, BLANK>>,
         <<BLANK, BLANK, BLANK, BLANK, BLANK>>
      >>
    >>

I_SHAPE_TEMPLATE ==
    <<
      <<
         <<BLANK, BLANK, BOX, BLANK, BLANK>>,
         <<BLANK, BLANK, BOX, BLANK, BLANK>>,
         <<BLANK, BLANK, BOX, BLANK, BLANK>>,
         <<BLANK, BLANK, BOX, BLANK, BLANK>>,
         <<BLANK, BLANK, BLANK, BLANK, BLANK>>
      >>,
      <<
         <<BLANK, BLANK, BLANK, BLANK, BLANK>>,
         <<BLANK, BLANK, BLANK, BLANK, BLANK>>,
         <<BOX, BOX, BOX, BOX, BLANK>>,
         <<BLANK, BLANK, BLANK, BLANK, BLANK>>,
         <<BLANK, BLANK, BLANK, BLANK, BLANK>>
      >>
    >>

O_SHAPE_TEMPLATE ==
    <<
      <<
         <<BLANK, BLANK, BLANK, BLANK, BLANK>>,
         <<BLANK, BLANK, BLANK, BLANK, BLANK>>,
         <<BLANK, BOX, BOX, BLANK, BLANK>>,
         <<BLANK, BOX, BOX, BLANK, BLANK>>,
         <<BLANK, BLANK, BLANK, BLANK, BLANK>>
      >>
    >>

J_SHAPE_TEMPLATE ==
    <<
      <<
         <<BLANK, BLANK, BLANK, BLANK, BLANK>>,
         <<BLANK, BOX, BLANK, BLANK, BLANK>>,
         <<BLANK, BOX, BOX, BOX, BLANK>>,
         <<BLANK, BLANK, BLANK, BLANK, BLANK>>,
         <<BLANK, BLANK, BLANK, BLANK, BLANK>>
      >>,
      <<
         <<BLANK, BLANK, BLANK, BLANK, BLANK>>,
         <<BLANK, BLANK, BOX, BOX, BLANK>>,
         <<BLANK, BLANK, BOX, BLANK, BLANK>>,
         <<BLANK, BLANK, BOX, BLANK, BLANK>>,
         <<BLANK, BLANK, BLANK, BLANK, BLANK>>
      >>,
      <<
         <<BLANK, BLANK, BLANK, BLANK, BLANK>>,
         <<BLANK, BLANK, BLANK, BLANK, BLANK>>,
         <<BLANK, BOX, BOX, BOX, BLANK>>,
         <<BLANK, BLANK, BLANK, BOX, BLANK>>,
         <<BLANK, BLANK, BLANK, BLANK, BLANK>>
      >>,
      <<
         <<BLANK, BLANK, BLANK, BLANK, BLANK>>,
         <<BLANK, BLANK, BOX, BLANK, BLANK>>,
         <<BLANK, BLANK, BOX, BLANK, BLANK>>,
         <<BLANK, BOX, BOX, BLANK, BLANK>>,
         <<BLANK, BLANK, BLANK, BLANK, BLANK>>
      >>
    >>

L_SHAPE_TEMPLATE ==
    <<
      <<
         <<BLANK, BLANK, BLANK, BLANK, BLANK>>,
         <<BLANK, BLANK, BLANK, BOX, BLANK>>,
         <<BLANK, BOX, BOX, BOX, BLANK>>,
         <<BLANK, BLANK, BLANK, BLANK, BLANK>>,
         <<BLANK, BLANK, BLANK, BLANK, BLANK>>
      >>,
      <<
         <<BLANK, BLANK, BLANK, BLANK, BLANK>>,
         <<BLANK, BLANK, BOX, BLANK, BLANK>>,
         <<BLANK, BLANK, BOX, BLANK, BLANK>>,
         <<BLANK, BLANK, BOX, BOX, BLANK>>,
         <<BLANK, BLANK, BLANK, BLANK, BLANK>>
      >>,
      <<
         <<BLANK, BLANK, BLANK, BLANK, BLANK>>,
         <<BLANK, BLANK, BLANK, BLANK, BLANK>>,
         <<BLANK, BOX, BOX, BOX, BLANK>>,
         <<BLANK, BOX, BLANK, BLANK, BLANK>>,
         <<BLANK, BLANK, BLANK, BLANK, BLANK>>
      >>,
      <<
         <<BLANK, BLANK, BLANK, BLANK, BLANK>>,
         <<BLANK, BOX, BOX, BLANK, BLANK>>,
         <<BLANK, BLANK, BOX, BLANK, BLANK>>,
         <<BLANK, BLANK, BOX, BLANK, BLANK>>,
         <<BLANK, BLANK, BLANK, BLANK, BLANK>>
      >>
    >>

T_SHAPE_TEMPLATE ==
    <<
      <<
         <<BLANK, BLANK, BLANK, BLANK, BLANK>>,
         <<BLANK, BLANK, BOX, BLANK, BLANK>>,
         <<BLANK, BOX, BOX, BOX, BLANK>>,
         <<BLANK, BLANK, BLANK, BLANK, BLANK>>,
         <<BLANK, BLANK, BLANK, BLANK, BLANK>>
      >>,
      <<
         <<BLANK, BLANK, BLANK, BLANK, BLANK>>,
         <<BLANK, BLANK, BOX, BLANK, BLANK>>,
         <<BLANK, BLANK, BOX, BOX, BLANK>>,
         <<BLANK, BLANK, BOX, BLANK, BLANK>>,
         <<BLANK, BLANK, BLANK, BLANK, BLANK>>
      >>,
      <<
         <<BLANK, BLANK, BLANK, BLANK, BLANK>>,
         <<BLANK, BLANK, BLANK, BLANK, BLANK>>,
         <<BLANK, BOX, BOX, BOX, BLANK>>,
         <<BLANK, BLANK, BOX, BLANK, BLANK>>,
         <<BLANK, BLANK, BLANK, BLANK, BLANK>>
      >>,
      <<
         <<BLANK, BLANK, BLANK, BLANK, BLANK>>,
         <<BLANK, BLANK, BOX, BLANK, BLANK>>,
         <<BLANK, BOX, BOX, BLANK, BLANK>>,
         <<BLANK, BLANK, BOX, BLANK, BLANK>>,
         <<BLANK, BLANK, BLANK, BLANK, BLANK>>
      >>
    >>

PIECES ==
    [S |-> S_SHAPE_TEMPLATE, Z |-> Z_SHAPE_TEMPLATE, J |-> J_SHAPE_TEMPLATE,
     L |-> L_SHAPE_TEMPLATE, I |-> I_SHAPE_TEMPLATE, O |-> O_SHAPE_TEMPLATE,
     T |-> T_SHAPE_TEMPLATE]

Shapes == DOMAIN PIECES

\* len(PIECES[shape])
NumOrientations(shape) == Len(PIECES[shape])

\* PIECES[shape][orientation][y][x]
TemplateCell(shape, orientation, x, y) ==
    PIECES[shape][orientation + 1][y + 1][x + 1]

\* ------------------------------------------------------------------------
\* Python list indexing.
InRange(l, i) == -Len(l) <= i /\ i < Len(l)

PyIndex(l, i) == IF i >= 0 THEN i + 1 ELSE Len(l) + i + 1

\* l[i] for an i in range
PyItem(l, i) == l[PyIndex(l, i)]

\* l[i] = v for an i in range
PySet(l, i, v) == [l EXCEPT ![PyIndex(l, i)] = v]

\* Python's % with a positive divisor (the result is never negative).
PyMod(a, n) == a % n

\* ------------------------------------------------------------------------
\* GameBoard

\* [BLANK]*rows, appended once per column
BlankGrid(columns, rows) == [x \in 1..columns |-> [y \in 1..rows |-> BLANK]]

\* GameBoard.__init__: the fields get 10 and 20 whatever the arguments are;
\* the grid is built from the arguments.
NewGameBoard(columns, rows) ==
    [columns |-> INIT_COLUMNS, rows |-> INIT_ROWS,
     state |-> BlankGrid(columns, rows)]

\* Faulty variant of reset that leaves the grid as it is; C1_BlockedSpawnResets
\* must fail with it.
reset_keeps_cells(b) == b

\* GameBoard.reset: the grid is rebuilt from the fields.
reset(b) == [b EXCEPT !.state = BlankGrid(b.columns, b.rows)]

is_on_board(b, x, y) == 0 <= x /\ x < b.columns /\ 0 <= y /\ y < b.rows

\* self.state[x][y]
Cell(b, x, y) == PyItem(PyItem(b.state, x), y)

\* The for loop of is_complete_line with its break and else.
RECURSIVE CompleteFrom(_, _, _)
CompleteFrom(b, y, x) ==
    IF x >= b.columns THEN TRUE
    ELSE IF Cell(b, x, y) = BLANK THEN FALSE
    ELSE CompleteFrom(b, y, x + 1)

\* Faulty variant of is_complete_line that does not look at column 0;
\* C5_NothingToRemove must fail with it.
is_complete_line_from_1(b, y) == CompleteFrom(b, y, 1)

is_complete_line(b, y) == CompleteFrom(b, y, 0)

\* Faulty variant of the removal that leaves row 0 as it was;
\* C23_KeptRowsInOrder must fail with it.
PullDownKeepsTop(b, y) ==
    [b EXCEPT !.state =
        [x \in 1..Len(b.state) |->
            IF x - 1 < b.columns
            THEN [r \in 1..Len(b.state[x]) |->
                    IF r - 1 = 0 THEN b.state[x][r]
                    ELSE IF r - 1 <= y THEN b.state[x][r - 1]
                    ELSE b.state[x][r]]
            ELSE b.state[x]]]

\* One removal: rows y..1 take the row above, then row 0 is blanked.
PullDown(b, y) ==
    [b EXCEPT !.state =
        [x \in 1..Len(b.state) |->
            IF x - 1 < b.columns
            THEN [r \in 1..Len(b.state[x]) |->
                    IF r - 1 = 0 THEN BLANK
                    ELSE IF r - 1 <= y THEN b.state[x][r - 1]
                    ELSE b.state[x][r]]
            ELSE b.state[x]]]

\* Faulty variant of the loop that moves up after a removal as well, so
\* that the row pulled down into y is not looked at;
\* C4_RemovesEveryCompleteLine must fail with it.
RECURSIVE RemoveLoopMovesUp(_, _, _)
RemoveLoopMovesUp(b, y, lines) ==
    IF y < 0 THEN [board |-> b, lines |-> lines]
    ELSE IF CompleteFrom(b, y, 0)
         THEN RemoveLoopMovesUp(PullDown(b, y), y - 1, lines + 1)
         ELSE RemoveLoopMovesUp(b, y - 1, lines)

\* The while loop of remove_complete_lines: y stays where it is after a
\* removal and moves up only past a row that is not complete.
RECURSIVE RemoveLoop(_, _, _)
RemoveLoop(b, y, lines) ==
    IF y < 0 THEN [board |-> b, lines |-> lines]
    ELSE IF is_complete_line(b, y)
         THEN RemoveLoop(PullDown(b, y), y, lines + 1)
         ELSE RemoveLoop(b, y - 1, lines)

\* Faulty variant of remove_complete_lines that returns 0 whatever it
\* removed; C3_CountersAccumulate must fail with it.
remove_complete_lines_uncounted(b) ==
    [board |-> RemoveLoop(b, b.rows - 1, 0).board, lines |-> 0]

\* remove_complete_lines: the board it leaves and the number it returns.
remove_complete_lines(b) == RemoveLoop(b, b.rows - 1, 0)

\* ------------------------------------------------------------------------
\* Piece

\* falling_piece = None
NoPiece == [shape |-> "None", orientation |-> 0, x |-> 0, y |-> 0,
            colour |-> 0, serial |-> 0]

\* Faulty variant of Piece.__init__ whose colour is an index of 1..4;
\* C9_CellsAreBlankOrColour must fail with it.
NewPieceColourOff(b, shape, orientation, colour, serial) ==
    [shape |-> shape, orientation |-> orientation,
     x |-> (b.columns \div 2) - (TEMPLATE_WIDTH \div 2),
     y |-> NEW_PIECES_START_Y, colour |-> colour + 1, serial |-> serial]

\* Piece.__init__ with the outcome of its three random draws; serial tells
\* the objects apart (the n-th Piece constructed has serial n).
NewPiece(b, shape, orientation, colour, serial) ==
    [shape |-> shape, orientation |-> orientation,
     x |-> (b.columns \div 2) - (TEMPLATE_WIDTH \div 2),
     y |-> NEW_PIECES_START_Y, colour |-> colour, serial |-> serial]

\* Faulty variant of the inner loop that does not skip the boxes above the
\* board; C22_ValidIffEveryBoxFree must fail with it.
RECURSIVE ColumnBreaksAbove(_, _, _, _, _, _)
ColumnBreaksAbove(p, b, x_adjustment, y_adjustment, x, y) ==
    IF y >= TEMPLATE_HEIGHT THEN FALSE
    ELSE LET bx == x + p.x + x_adjustment
             by == y + p.y + y_adjustment
         IN  IF TemplateCell(p.shape, p.orientation, x, y) = BLANK
             THEN ColumnBreaksAbove(p, b, x_adjustment, y_adjustment, x, y + 1)
             ELSE IF ~is_on_board(b, bx, by) THEN TRUE
             ELSE IF Cell(b, bx, by) # BLANK THEN TRUE
             ELSE ColumnBreaksAbove(p, b, x_adjustment, y_adjustment, x, y + 1)

\* The body of the inner loop of is_valid_position from template cell (x, y)
\* on: TRUE when the scan of column x ends in a break.
RECURSIVE ColumnBreaks(_, _, _, _, _, _)
ColumnBreaks(p, b, x_adjustment, y_adjustment, x, y) ==
    IF y >= TEMPLATE_HEIGHT THEN FALSE
    ELSE LET is_above_board == y + p.y + y_adjustment < 0
             bx == x + p.x + x_adjustment
             by == y + p.y + y_adjustment
         IN  IF is_above_board \/ TemplateCell(p.shape, p.orientation, x, y) = BLANK
             THEN ColumnBreaks(p, b, x_adjustment, y_adjustment, x, y + 1)
             ELSE IF ~is_on_board(b, bx, by) THEN TRUE
             ELSE IF Cell(b, bx, by) # BLANK THEN TRUE
             ELSE ColumnBreaks(p, b, x_adjustment, y_adjustment, x, y + 1)

\* Faulty variant of the outer loop in which a column without a break sets
\* valid back to True; C6_ObstructedIsInvalid must fail with it.
RECURSIVE ValidFromLastColumn(_, _, _, _, _, _)
ValidFromLastColumn(p, b, x_adjustment, y_adjustment, x, valid) ==
    IF x >= TEMPLATE_WIDTH THEN valid
    ELSE ValidFromLastColumn(p, b, x_adjustment, y_adjustment, x + 1,
                             ~ColumnBreaks(p, b, x_adjustment, y_adjustment,
                                           x, 0))

\* The outer loop: a break leaves only the inner loop, valid stays False.
RECURSIVE ValidFrom(_, _, _, _, _, _)
ValidFrom(p, b, x_adjustment, y_adjustment, x, valid) ==
    IF x >= TEMPLATE_WIDTH THEN valid
    ELSE ValidFrom(p, b, x_adjustment, y_adjustment, x + 1,
                   IF ColumnBreaks(p, b, x_adjustment, y_adjustment, x, 0)
                   THEN FALSE ELSE valid)

is_valid_position(p, b, x_adjustment, y_adjustment) ==
    ValidFrom(p, b, x_adjustment, y_adjustment, 0, TRUE)

legal_left(p, b) == is_valid_position(p, b, -1, 0)
legal_right(p, b) == is_valid_position(p, b, 1, 0)
legal_down(p, b) == is_valid_position(p, b, 0, 1)

move_left(p) == [p EXCEPT !.x = p.x - 1]
move_right(p) == [p EXCEPT !.x = p.x + 1]
move_down(p) == [p EXCEPT !.y = p.y + 1]

\* The for loop of move_to_bottom, i running over xrange(1, b.rows).
RECURSIVE BottomLoop(_, _, _)
BottomLoop(p, b, i) ==
    IF i >= b.rows THEN p
    ELSE IF ~legal_down(p, b) THEN p
    ELSE BottomLoop([p EXCEPT !.y = p.y + 1], b, i + 1)

\* Faulty variant of move_to_bottom that moves down once before it looks;
\* C12_MoveToBottomRests must fail with it.
move_to_bottom_unchecked(p, b) == BottomLoop(move_down(p), b, 1)

move_to_bottom(p, b) == BottomLoop(p, b, 1)

\* Faulty variant of rotate_clockwise that wraps one orientation too early;
\* C10_FourAcceptedTurnsRestore must fail with it.
rotate_clockwise_wraps_early(p, b) ==
    LET n == NumOrientations(p.shape)
        turned == [p EXCEPT !.orientation =
                      IF n > 1 THEN PyMod(p.orientation + 1, n - 1) ELSE 0]
    IN  IF ~is_valid_position(turned, b, 0, 0) THEN p ELSE turned

rotate_clockwise(p, b) ==
    LET turned == [p EXCEPT !.orientation =
                      PyMod(p.orientation + 1, NumOrientations(p.shape))]
    IN  IF ~is_valid_position(turned, b, 0, 0)
        THEN [turned EXCEPT !.orientation =
                 PyMod(turned.orientation - 1, NumOrientations(p.shape))]
        ELSE turned

\* Faulty variant of rotate_counterclockwise whose revert does not wrap;
\* C21_OrientationInRange must fail with it.
rotate_counterclockwise_revert_unwrapped(p, b) ==
    LET turned == [p EXCEPT !.orientation =
                      PyMod(p.orientation - 1, NumOrientations(p.shape))]
    IN  IF ~is_valid_position(turned, b, 0, 0)
        THEN [turned EXCEPT !.orientation = turned.orientation + 1]
        ELSE turned

\* Faulty variant of rotate_counterclockwise without the revert;
\* C11_RotationIsTryRevert must fail with it.
rotate_counterclockwise_keeps_turn(p, b) ==
    [p EXCEPT !.orientation =
        PyMod(p.orientation - 1, NumOrientations(p.shape))]

rotate_counterclockwise(p, b) ==
    LET turned == [p EXCEPT !.orientation =
                      PyMod(p.orientation - 1, NumOrientations(p.shape))]
    IN  IF ~is_valid_position(turned, b, 0, 0)
        THEN [turned EXCEPT !.orientation =
                 PyMod(turned.orientation + 1, NumOrientations(p.shape))]
        ELSE turned

\* The two loops of add_to_board from the k-th template cell on (x outer,
\* y inner). A store outside the lists raises IndexError and leaves the
\* cells written so far.
RECURSIVE AddLoop(_, _, _)
AddLoop(p, b, k) ==
    IF k >= TEMPLATE_WIDTH * TEMPLATE_HEIGHT
    THEN [board |-> b, raised |-> FALSE]
    ELSE LET x == k \div TEMPLATE_HEIGHT
             y == k % TEMPLATE_HEIGHT
         IN  IF TemplateCell(p.shape, p.orientation, x, y) = BLANK
             THEN AddLoop(p, b, k + 1)
             ELSE IF ~InRange(b.state, x + p.x)
                     \/ ~InRange(PyItem(b.state, x + p.x), y + p.y)
             THEN [board |-> b, raised |-> TRUE]
             ELSE AddLoop(p,
                          [b EXCEPT !.state =
                              PySet(b.state, x + p.x,
                                    PySet(PyItem(b.state, x + p.x), y + p.y,
                                          p.colour))],
                          k + 1)

add_to_board(p, b) == AddLoop(p, b, 0)

\* Faulty variant of calculate_level without the + 1;
\* C16_LevelOfLines must fail with it.
calculate_level_from_0(score) == score \div LINES_PER_LEVEL

calculate_level(score) == (score \div LINES_PER_LEVEL) + 1

calculate_fall_frequency(level) ==
    BASE_FALL_FREQUENCY - (level * FALL_FREQUENCY_INCREASE_PER_LEVEL)

\* ------------------------------------------------------------------------
\* The environment of distractor(): what np.random draws, the keyboard and
\* the clock.

\* Bounds of the exploration.
NumSeeds == 3
MaxPieces == 10
FewPieces == 6
MaxEvents == 2
FrameStep == 160

\* fall_frequency = 0.3, fps = 30 and the four exclusion proportions of
\* 0.025, in thousandths (defaults of distractor, tetromino.py 709)
FALL_FREQUENCY == 300
DEFAULT_FPS == 30
DEFAULT_EXCLUDE == 25

\* What np.random yields for the successive Piece() calls under each seed:
\* shape, orientation and colour of the pieces, repeated cyclically.
Draws ==
    << << <<"I", 0, 0>>, <<"I", 0, 1>>, <<"I", 0, 2>>, <<"I", 0, 3>> >>,
       << <<"I", 1, 0>>, <<"J", 0, 1>>, <<"L", 0, 2>>, <<"O", 0, 3>>,
          <<"T", 2, 0>>, <<"S", 0, 1>>, <<"Z", 1, 2>> >>,
       << <<"J", 1, 2>>, <<"J", 1, 3>> >>,
       << <<"L", 3, 1>>, <<"T", 1, 2>>, <<"S", 1, 3>> >> >>

\* The n-th draw (n = 1, 2, ...) under a seed.
Draw(sd, n) == Draws[sd][((n - 1) % Len(Draws[sd])) + 1]

\* Piece(game_board) as the n-th Piece constructed in the session.
RandomPiece(b, sd, n) ==
    NewPiece(b, Draw(sd, n)[1], Draw(sd, n)[2], Draw(sd, n)[3], n)

\* time.time() - last_..._time is only ever compared with one threshold.
Elapsed(t, threshold) == IF t > threshold THEN threshold + 1 ELSE t

VARIABLES
    pc,                 \* where distractor() stands
    args,               \* its arguments: columns, rows, fps, duration
    game_board, falling_piece, next_piece,
    moving_down, moving_left, moving_right,
    down_elapsed,       \* time.time() - last_move_down_time
    sideways_elapsed,   \* time.time() - last_move_sideways_time
    fall_elapsed,       \* time.time() - last_fall_time
    expired,            \* time.time() >= finish_time
    lines, losses,
    seed, drawn,        \* np.random: the seed and the number of pieces drawn
    events_left,        \* input events the player still produces
    pieces_left,        \* pieces np.random still yields before finish_time
    files_open,         \* the files handed to distractor are open
    step,               \* the statement executed last
    unit                \* the method calls made on a board and a piece
                        \* outside a session, and what they returned

vars == <<pc, args, game_board, falling_piece, next_piece, moving_down,
          moving_left, moving_right, down_elapsed, sideways_elapsed,
          fall_elapsed, expired, lines, losses, seed, drawn, events_left,
          pieces_left, files_open, step, unit>>

\* The board before GameBoard() has run.
NoBoard == [columns |-> 0, rows |-> 0, state |-> <<>>]

\* No method called outside a session.
NoCalls == [calls |-> <<>>, board |-> NoBoard, piece |-> NoPiece,
            x |-> 0, y |-> 0, result |-> 0, verdict |-> FALSE,
            accepted |-> 0]

\* The default arguments of distractor, with a duration that is not 0.
DefaultArgs ==
    [columns |-> DEFAULT_COLUMNS, rows |-> DEFAULT_ROWS, fps |-> DEFAULT_FPS,
     duration |-> 1, fall_frequency |-> FALL_FREQUENCY,
     top_exclude |-> DEFAULT_EXCLUDE, bottom_exclude |-> DEFAULT_EXCLUDE,
     left_exclude |-> DEFAULT_EXCLUDE, right_exclude |-> DEFAULT_EXCLUDE]

\* The arguments the sessions are started with: the defaults, a duration of
\* 0, and malformed columns, rows, fps and exclusion proportions.
ArgSets ==
    {DefaultArgs,
     [DefaultArgs EXCEPT !.duration = 0],
     [DefaultArgs EXCEPT !.columns = 4],
     [DefaultArgs EXCEPT !.rows = 4],
     [DefaultArgs EXCEPT !.fps = 0],
     [DefaultArgs EXCEPT !.top_exclude = 600, !.bottom_exclude = 400],
     [DefaultArgs EXCEPT !.left_exclude = -50]}

\* The sessions explored: a player who presses at most one key in a session
\* of up to MaxPieces pieces, and one who presses up to MaxEvents keys in a
\* session of up to FewPieces pieces.
Players == {<<1, MaxPieces>>, <<MaxEvents, FewPieces>>}

Init ==
    /\ pc = "call"
    /\ args \in ArgSets
    /\ game_board = NoBoard
    /\ falling_piece = NoPiece
    /\ next_piece = NoPiece
    /\ moving_down = FALSE
    /\ moving_left = FALSE
    /\ moving_right = FALSE
    /\ down_elapsed = 0
    /\ sideways_elapsed = 0
    /\ fall_elapsed = 0
    /\ expired = FALSE
    /\ lines = 0
    /\ losses = 0
    /\ seed \in 1..NumSeeds
    /\ drawn = 0
    /\ \E player \in Players :
           events_left = player[1] /\ pieces_left = player[2]
    /\ files_open = TRUE
    /\ step = "none"
    /\ unit = NoCalls

\* The asserts with >= in place of > for the board: a board of 4 passes.
ArgsAcceptedFrom4(a) ==
    /\ a.columns >= 4 /\ a.rows >= 4
    /\ a.fps > 0
    /\ 0 <= a.top_exclude + a.bottom_exclude
    /\ a.top_exclude + a.bottom_exclude < 1000
    /\ 0 <= a.left_exclude + a.right_exclude
    /\ a.left_exclude + a.right_exclude < 1000

\* The asserts of distractor (786-792).
ArgsAccepted(a) ==
    /\ a.columns > 4 /\ a.rows > 4
    /\ a.fps > 0
    /\ 0 <= a.top_exclude + a.bottom_exclude
    /\ a.top_exclude + a.bottom_exclude < 1000
    /\ 0 <= a.left_exclude + a.right_exclude
    /\ a.left_exclude + a.right_exclude < 1000

\* An assert fails: AssertionError before anything is built.
Rejected ==
    /\ pc = "call"
    /\ ~ArgsAccepted(args)
    /\ pc' = "rejected"
    /\ step' = "assert"
    /\ UNCHANGED <<args, game_board, falling_piece, next_piece, moving_down,
                   moving_left, moving_right, down_elapsed, sideways_elapsed,
                   fall_elapsed, expired, lines, losses, seed, drawn,
                   events_left, pieces_left, files_open, unit>>

\* The set-up with a while test that passes once whatever the duration.
SetupEntersLoop ==
    /\ pc = "call"
    /\ ArgsAccepted(args)
    /\ lines' = 0
    /\ losses' = 0
    /\ game_board' = NewGameBoard(args.columns, args.rows)
    /\ falling_piece' = RandomPiece(game_board', seed, drawn + 1)
    /\ next_piece' = RandomPiece(game_board', seed, drawn + 2)
    /\ drawn' = drawn + 2
    /\ moving_down' = FALSE
    /\ moving_left' = FALSE
    /\ moving_right' = FALSE
    /\ down_elapsed' = 0
    /\ sideways_elapsed' = 0
    /\ fall_elapsed' = 0
    /\ expired' = FALSE
    /\ pc' = "while"
    /\ step' = "setup"
    /\ UNCHANGED <<args, seed, events_left, pieces_left, files_open, unit>>

\* Lines 793-850: the counters, the board, the first two pieces, the flags
\* and the timers; finish_time = start_time + duration.
Setup ==
    /\ pc = "call"
    /\ ArgsAccepted(args)
    /\ lines' = 0
    /\ losses' = 0
    /\ game_board' = NewGameBoard(args.columns, args.rows)
    /\ falling_piece' = RandomPiece(game_board', seed, drawn + 1)
    /\ next_piece' = RandomPiece(game_board', seed, drawn + 2)
    /\ drawn' = drawn + 2
    /\ moving_down' = FALSE
    /\ moving_left' = FALSE
    /\ moving_right' = FALSE
    /\ down_elapsed' = 0
    /\ sideways_elapsed' = 0
    /\ fall_elapsed' = 0
    /\ expired' = (args.duration = 0)
    /\ pc' = "while"
    /\ step' = "setup"
    /\ UNCHANGED <<args, seed, events_left, pieces_left, files_open, unit>>

\* while time.time() < finish_time: the test fails, lines 948-973 return.
Return ==
    /\ pc = "while"
    /\ expired
    /\ pc' = "returned"
    /\ step' = "return"
    /\ UNCHANGED <<args, game_board, falling_piece, next_piece, moving_down,
                   moving_left, moving_right, down_elapsed, sideways_elapsed,
                   fall_elapsed, expired, lines, losses, seed, drawn,
                   events_left, pieces_left, files_open, unit>>

\* Line 852 with a falling piece: nothing to spawn.
NoSpawn ==
    /\ pc = "while"
    /\ ~expired
    /\ falling_piece # NoPiece
    /\ pc' = "events"
    /\ step' = "nospawn"
    /\ UNCHANGED <<args, game_board, falling_piece, next_piece, moving_down,
                   moving_left, moving_right, down_elapsed, sideways_elapsed,
                   fall_elapsed, expired, lines, losses, seed, drawn,
                   events_left, pieces_left, files_open, unit>>

\* Lines 852-857: the next piece becomes the falling piece and fits.
Spawn ==
    /\ pc = "while"
    /\ ~expired
    /\ falling_piece = NoPiece
    /\ is_valid_position(next_piece, game_board, 0, 0)
    /\ falling_piece' = next_piece
    /\ next_piece' = RandomPiece(game_board, seed, drawn + 1)
    /\ drawn' = drawn + 1
    /\ fall_elapsed' = 0
    /\ pc' = "events"
    /\ step' = "spawn"
    /\ UNCHANGED <<args, game_board, moving_down, moving_left, moving_right,
                   down_elapsed, sideways_elapsed, expired, lines, losses,
                   seed, events_left, pieces_left, files_open, unit>>

\* Lines 852-869: the promoted piece does not fit; the player loses.
Loss ==
    /\ pc = "while"
    /\ ~expired
    /\ falling_piece = NoPiece
    /\ ~is_valid_position(next_piece, game_board, 0, 0)
    /\ losses' = losses + 1
    /\ game_board' = reset(game_board)
    /\ moving_down' = FALSE
    /\ moving_left' = FALSE
    /\ moving_right' = FALSE
    /\ down_elapsed' = 0
    /\ sideways_elapsed' = 0
    /\ fall_elapsed' = 0
    /\ falling_piece' = RandomPiece(game_board', seed, drawn + 2)
    /\ next_piece' = RandomPiece(game_board', seed, drawn + 3)
    /\ drawn' = drawn + 3
    /\ pc' = "events"
    /\ step' = "loss"
    /\ UNCHANGED <<args, expired, lines, seed, events_left, pieces_left, files_open, unit>>

\* ------------------------------------------------------------------------
\* for event in pygame.event.get(): one action per kind of event.

\* The next event of the list is taken.
TakeEvent(name) ==
    /\ pc = "events"
    /\ events_left > 0
    /\ events_left' = events_left - 1
    /\ step' = name
    /\ UNCHANGED <<args, game_board, next_piece, expired, lines, losses,
                   seed, drawn, pieces_left, unit>>

\* A quit event that closes the files and goes on with the batch.
QuitKeepsLooping ==
    /\ TakeEvent("quit")
    /\ files_open' = FALSE
    /\ pc' = "events"
    /\ UNCHANGED <<falling_piece, moving_down, moving_left, moving_right,
                   down_elapsed, sideways_elapsed, fall_elapsed>>

\* QUIT, or KEYUP of a key of press_to_quit: generic.terminate(files)
\* closes the files, then pygame.quit() and sys.exit().
Quit ==
    /\ TakeEvent("quit")
    /\ files_open' = FALSE
    /\ pc' = "terminated"
    /\ UNCHANGED <<falling_piece, moving_down, moving_left, moving_right,
                   down_elapsed, sideways_elapsed, fall_elapsed>>

KeyUpLeft ==
    /\ TakeEvent("keyup_left")
    /\ moving_left' = FALSE
    /\ pc' = "events"
    /\ UNCHANGED <<falling_piece, moving_down, moving_right, down_elapsed,
                   sideways_elapsed, fall_elapsed, files_open, unit>>

KeyUpRight ==
    /\ TakeEvent("keyup_right")
    /\ moving_right' = FALSE
    /\ pc' = "events"
    /\ UNCHANGED <<falling_piece, moving_down, moving_left, down_elapsed,
                   sideways_elapsed, fall_elapsed, files_open, unit>>

KeyUpDown ==
    /\ TakeEvent("keyup_down")
    /\ moving_down' = FALSE
    /\ pc' = "events"
    /\ UNCHANGED <<falling_piece, moving_left, moving_right, down_elapsed,
                   sideways_elapsed, fall_elapsed, files_open, unit>>

\* Faulty variant of the MOVE_LEFT branch that leaves moving_right as it
\* is; C30_HeldFlags must fail with it.
KeyDownLeftKeepsRight ==
    /\ TakeEvent("keydown_left")
    /\ pc' = "events"
    /\ IF legal_left(falling_piece, game_board)
       THEN /\ falling_piece' = move_left(falling_piece)
            /\ moving_left' = TRUE
            /\ moving_right' = moving_right
            /\ sideways_elapsed' = 0
       ELSE UNCHANGED <<falling_piece, moving_left, moving_right,
                        sideways_elapsed>>
    /\ UNCHANGED <<moving_down, down_elapsed, fall_elapsed, files_open, unit>>

\* KEYDOWN of a key of MOVE_LEFT; when the move is not legal no later branch
\* of the elif chain matches the key.
KeyDownLeft ==
    /\ TakeEvent("keydown_left")
    /\ pc' = "events"
    /\ IF legal_left(falling_piece, game_board)
       THEN /\ falling_piece' = move_left(falling_piece)
            /\ moving_left' = TRUE
            /\ moving_right' = FALSE
            /\ sideways_elapsed' = 0
       ELSE UNCHANGED <<falling_piece, moving_left, moving_right,
                        sideways_elapsed>>
    /\ UNCHANGED <<moving_down, down_elapsed, fall_elapsed, files_open, unit>>

KeyDownRight ==
    /\ TakeEvent("keydown_right")
    /\ pc' = "events"
    /\ IF legal_right(falling_piece, game_board)
       THEN /\ falling_piece' = move_right(falling_piece)
            /\ moving_right' = TRUE
            /\ moving_left' = FALSE
            /\ sideways_elapsed' = 0
       ELSE UNCHANGED <<falling_piece, moving_left, moving_right,
                        sideways_elapsed>>
    /\ UNCHANGED <<moving_down, down_elapsed, fall_elapsed, files_open, unit>>

KeyDownClockwise ==
    /\ TakeEvent("keydown_clockwise")
    /\ pc' = "events"
    /\ falling_piece' = rotate_clockwise(falling_piece, game_board)
    /\ UNCHANGED <<moving_down, moving_left, moving_right, down_elapsed,
                   sideways_elapsed, fall_elapsed, files_open, unit>>

KeyDownCounterclockwise ==
    /\ TakeEvent("keydown_counterclockwise")
    /\ pc' = "events"
    /\ falling_piece' = rotate_counterclockwise(falling_piece, game_board)
    /\ UNCHANGED <<moving_down, moving_left, moving_right, down_elapsed,
                   sideways_elapsed, fall_elapsed, files_open, unit>>

\* Faulty variant of the MOVE_DOWN branch without the legal_down test;
\* C27_FallingPieceStaysValid must fail with it.
KeyDownDownUnchecked ==
    /\ TakeEvent("keydown_down")
    /\ pc' = "events"
    /\ moving_down' = TRUE
    /\ falling_piece' = move_down(falling_piece)
    /\ down_elapsed' = 0
    /\ UNCHANGED <<moving_left, moving_right, sideways_elapsed, fall_elapsed,
                   files_open, unit>>

KeyDownDown ==
    /\ TakeEvent("keydown_down")
    /\ pc' = "events"
    /\ IF legal_down(falling_piece, game_board)
       THEN /\ moving_down' = TRUE
            /\ falling_piece' = move_down(falling_piece)
            /\ down_elapsed' = 0
       ELSE UNCHANGED <<falling_piece, moving_down, down_elapsed>>
    /\ UNCHANGED <<moving_left, moving_right, sideways_elapsed, fall_elapsed,
                   files_open, unit>>

\* Faulty variant of the MOVE_TO_BOTTOM branch that lands the piece at once;
\* C13_HardDropDoesNotLand must fail with it.
KeyDownBottomLands ==
    /\ pc = "events"
    /\ events_left > 0
    /\ events_left' = events_left - 1
    /\ moving_left' = FALSE
    /\ moving_right' = FALSE
    /\ moving_down' = FALSE
    /\ game_board' =
           add_to_board(move_to_bottom(falling_piece, game_board),
                        game_board).board
    /\ falling_piece' = NoPiece
    /\ pc' = "render"
    /\ step' = "keydown_bottom"
    /\ UNCHANGED <<args, next_piece, down_elapsed, sideways_elapsed,
                   fall_elapsed, expired, lines, losses, seed, drawn,
                   pieces_left, files_open, unit>>

KeyDownBottom ==
    /\ TakeEvent("keydown_bottom")
    /\ pc' = "events"
    /\ moving_left' = FALSE
    /\ moving_right' = FALSE
    /\ moving_down' = FALSE
    /\ falling_piece' = move_to_bottom(falling_piece, game_board)
    /\ UNCHANGED <<down_elapsed, sideways_elapsed, fall_elapsed, files_open, unit>>

\* Any other event (another key, the mouse): the else branch, pass.
OtherEvent ==
    /\ TakeEvent("other_event")
    /\ pc' = "events"
    /\ UNCHANGED <<falling_piece, moving_down, moving_left, moving_right,
                   down_elapsed, sideways_elapsed, fall_elapsed, files_open, unit>>

\* The list of events is exhausted.
EventsDone ==
    /\ pc = "events"
    /\ pc' = "held"
    /\ step' = "events_done"
    /\ UNCHANGED <<args, game_board, falling_piece, next_piece, moving_down,
                   moving_left, moving_right, down_elapsed, sideways_elapsed,
                   fall_elapsed, expired, lines, losses, seed, drawn,
                   events_left, pieces_left, files_open, unit>>

\* ------------------------------------------------------------------------
\* Lines 910-919: the repeats of the held keys.

\* falling_piece after lines 910-916
AfterSideways(p, b) ==
    LET sideways_due == (moving_left \/ moving_right)
                        /\ sideways_elapsed > MOVE_SIDEWAYS_FREQUENCY
        p1 == IF sideways_due /\ moving_left /\ legal_left(p, b)
              THEN move_left(p) ELSE p
    IN  IF sideways_due /\ moving_right /\ legal_right(p1, b)
        THEN move_right(p1) ELSE p1

\* Faulty variant of the held-key step whose soft-drop repeat waits for
\* both intervals; C25_DownRepeatsFaster must fail with it.
HeldKeysDownSlow ==
    /\ pc = "held"
    /\ LET sideways_due == (moving_left \/ moving_right)
                           /\ sideways_elapsed > MOVE_SIDEWAYS_FREQUENCY
           p1 == AfterSideways(falling_piece, game_board)
           down_due == moving_down
                       /\ down_elapsed >
                              MOVE_SIDEWAYS_FREQUENCY + MOVE_DOWN_FREQUENCY
                       /\ legal_down(p1, game_board)
       IN  /\ falling_piece' = IF down_due THEN move_down(p1) ELSE p1
           /\ sideways_elapsed' = IF sideways_due THEN 0 ELSE sideways_elapsed
           /\ down_elapsed' = IF down_due THEN 0 ELSE down_elapsed
    /\ pc' = "gravity"
    /\ step' = "held"
    /\ UNCHANGED <<args, game_board, next_piece, moving_down, moving_left,
                   moving_right, fall_elapsed, expired, lines, losses, seed,
                   drawn, events_left, pieces_left, files_open, unit>>

HeldKeys ==
    /\ pc = "held"
    /\ LET sideways_due == (moving_left \/ moving_right)
                           /\ sideways_elapsed > MOVE_SIDEWAYS_FREQUENCY
           p1 == AfterSideways(falling_piece, game_board)
           down_due == moving_down /\ down_elapsed > MOVE_DOWN_FREQUENCY
                       /\ legal_down(p1, game_board)
       IN  /\ falling_piece' = IF down_due THEN move_down(p1) ELSE p1
           /\ sideways_elapsed' = IF sideways_due THEN 0 ELSE sideways_elapsed
           /\ down_elapsed' = IF down_due THEN 0 ELSE down_elapsed
    /\ pc' = "gravity"
    /\ step' = "held"
    /\ UNCHANGED <<args, game_board, next_piece, moving_down, moving_left,
                   moving_right, fall_elapsed, expired, lines, losses, seed,
                   drawn, events_left, pieces_left, files_open, unit>>

\* ------------------------------------------------------------------------
\* Lines 920-931: gravity.

\* Faulty variant of the interval that follows the level of the lines
\* cleared; C15_IntervalIsArgument must fail with it.
FallIntervalOfLevel == calculate_fall_frequency(calculate_level(lines))

\* The interval line 920 compares with: the fall_frequency argument.
FallInterval == args.fall_frequency

\* The interval has not elapsed since last_fall_time.
GravityWait ==
    /\ pc = "gravity"
    /\ ~(fall_elapsed > FallInterval)
    /\ pc' = "render"
    /\ step' = "gravity_wait"
    /\ UNCHANGED <<args, game_board, falling_piece, next_piece, moving_down,
                   moving_left, moving_right, down_elapsed, sideways_elapsed,
                   fall_elapsed, expired, lines, losses, seed, drawn,
                   events_left, pieces_left, files_open, unit>>

\* Faulty variant of the gravity move that stores the piece in the board
\* before it moves it; C28_BoardChangesOnlyTwice must fail with it.
GravityFallPaints ==
    /\ pc = "gravity"
    /\ fall_elapsed > FallInterval
    /\ legal_down(falling_piece, game_board)
    /\ game_board' = add_to_board(falling_piece, game_board).board
    /\ falling_piece' = move_down(falling_piece)
    /\ fall_elapsed' = 0
    /\ pc' = "render"
    /\ step' = "gravity_fall"
    /\ UNCHANGED <<args, next_piece, moving_down, moving_left,
                   moving_right, down_elapsed, sideways_elapsed, expired,
                   lines, losses, seed, drawn, events_left, pieces_left,
                   files_open, unit>>

\* The piece has not landed: it moves down and the timer restarts.
GravityFall ==
    /\ pc = "gravity"
    /\ fall_elapsed > FallInterval
    /\ legal_down(falling_piece, game_board)
    /\ falling_piece' = move_down(falling_piece)
    /\ fall_elapsed' = 0
    /\ pc' = "render"
    /\ step' = "gravity_fall"
    /\ UNCHANGED <<args, game_board, next_piece, moving_down, moving_left,
                   moving_right, down_elapsed, sideways_elapsed, expired,
                   lines, losses, seed, drawn, events_left, pieces_left, files_open, unit>>

\* The piece has landed: it is added to the board, the complete lines are
\* removed and counted, and falling_piece becomes None.
GravityLand ==
    /\ pc = "gravity"
    /\ fall_elapsed > FallInterval
    /\ ~legal_down(falling_piece, game_board)
    /\ ~add_to_board(falling_piece, game_board).raised
    /\ LET removed == remove_complete_lines(
                          add_to_board(falling_piece, game_board).board)
       IN  /\ game_board' = removed.board
           /\ lines' = lines + removed.lines
    /\ falling_piece' = NoPiece
    /\ pc' = "render"
    /\ step' = "gravity_land"
    /\ UNCHANGED <<args, next_piece, moving_down, moving_left, moving_right,
                   down_elapsed, sideways_elapsed, fall_elapsed, expired,
                   losses, seed, drawn, events_left, pieces_left, files_open, unit>>

\* add_to_board raises IndexError: distractor ends with the exception, the
\* board keeping the cells stored before it.
GravityRaise ==
    /\ pc = "gravity"
    /\ fall_elapsed > FallInterval
    /\ ~legal_down(falling_piece, game_board)
    /\ add_to_board(falling_piece, game_board).raised
    /\ game_board' = add_to_board(falling_piece, game_board).board
    /\ pc' = "raised"
    /\ step' = "index_error"
    /\ UNCHANGED <<args, falling_piece, next_piece, moving_down, moving_left,
                   moving_right, down_elapsed, sideways_elapsed, fall_elapsed,
                   expired, lines, losses, seed, drawn, events_left,
                   pieces_left, files_open, unit>>

\* ------------------------------------------------------------------------
\* Lines 932-947: the frame is drawn and c.tick(fps) waits; FrameStep
\* milliseconds pass. finish_time is reached at some frame, and no later
\* than the frame after which np.random would run past MaxPieces draws.
Frame ==
    /\ pc = "render"
    /\ down_elapsed' = Elapsed(down_elapsed + FrameStep, MOVE_DOWN_FREQUENCY)
    /\ sideways_elapsed' =
           Elapsed(sideways_elapsed + FrameStep, MOVE_SIDEWAYS_FREQUENCY)
    /\ fall_elapsed' = Elapsed(fall_elapsed + FrameStep, FallInterval)
    /\ expired' \in IF falling_piece = NoPiece /\ drawn + 3 > pieces_left
                    THEN {TRUE} ELSE {FALSE, TRUE}
    /\ pc' = "while"
    /\ step' = "frame"
    /\ UNCHANGED <<args, game_board, falling_piece, next_piece, moving_down,
                   moving_left, moving_right, lines, losses, seed, drawn,
                   events_left, pieces_left, files_open, unit>>

Next ==
    \/ Rejected \/ Setup \/ Return \/ NoSpawn \/ Spawn \/ Loss
    \/ Quit \/ KeyUpLeft \/ KeyUpRight \/ KeyUpDown
    \/ KeyDownLeft \/ KeyDownRight \/ KeyDownClockwise
    \/ KeyDownCounterclockwise \/ KeyDownDown \/ KeyDownBottom
    \/ OtherEvent \/ EventsDone
    \/ HeldKeys \/ GravityWait \/ GravityFall \/ GravityLand \/ GravityRaise
    \/ Frame

Spec == Init /\ [][Next]_vars

\* ------------------------------------------------------------------------
\* The methods of GameBoard and Piece called one at a time on boards and
\* pieces drawn from bounded sets (specification UnitSpec). unit keeps the
\* board and the piece before the first call, the arguments and the value
\* returned.

\* Bounds: the rows of the stack at the bottom of a test board, and the
\* number of consecutive rotations.
StackRows == 3
MaxTurns == 4

RowKinds == {"blank", "full", "gap_left", "right_half"}

\* The cell of column x in a row of each kind.
RowCell(kind, x) ==
    CASE kind = "blank" -> BLANK
      [] kind = "full" -> x % NUM_COLOURS
      [] kind = "gap_left" -> IF x = 0 THEN BLANK ELSE x % NUM_COLOURS
      [] kind = "right_half" -> IF x < 5 THEN BLANK ELSE x % NUM_COLOURS

\* A default board with row 0 of kind top and the lowest rows of the kinds
\* stack[1], stack[2], ... from the bottom up.
TestBoard(top, stack) ==
    [NewGameBoard(DEFAULT_COLUMNS, DEFAULT_ROWS) EXCEPT !.state =
        [cx \in 1..DEFAULT_COLUMNS |->
            [ry \in 1..DEFAULT_ROWS |->
                IF ry = 1 THEN RowCell(top, cx - 1)
                ELSE IF DEFAULT_ROWS - ry + 1 <= Len(stack)
                     THEN RowCell(stack[DEFAULT_ROWS - ry + 1], cx - 1)
                     ELSE BLANK]]]

TestBoards ==
    {TestBoard(top, stack) : top \in RowKinds, stack \in [1..StackRows -> RowKinds]}

\* The boards the pieces are tried on.
PieceBoards ==
    {TestBoard(top, [i \in 1..StackRows |-> kind]) :
        top \in {"blank", "right_half"}, kind \in RowKinds}

TestXs == {-2, -1, 0, 2, 3, 6, 7, 8}
TestYs == {-2, -1, 0, 14, 15, 16, 17, 18}

TestPieces ==
    {[shape |-> sh, orientation |-> o, x |-> px, y |-> py, colour |-> 2,
      serial |-> 1] :
        sh \in Shapes, o \in 0..3, px \in TestXs, py \in TestYs}

UnitInit ==
    /\ pc = "unit"
    /\ args = [DefaultArgs EXCEPT !.duration = 0]
    /\ \/ /\ game_board \in TestBoards
          /\ falling_piece = NewPiece(game_board, "T", 0, 2, 1)
       \/ /\ game_board \in PieceBoards
          /\ falling_piece \in
                {p \in TestPieces : p.orientation < NumOrientations(p.shape)}
    /\ next_piece = NoPiece
    /\ moving_down = FALSE
    /\ moving_left = FALSE
    /\ moving_right = FALSE
    /\ down_elapsed = 0
    /\ sideways_elapsed = 0
    /\ fall_elapsed = 0
    /\ expired = FALSE
    /\ lines = 0
    /\ losses = 0
    /\ seed = 1
    /\ drawn = 0
    /\ events_left = 0
    /\ pieces_left = 0
    /\ files_open = TRUE
    /\ step = "none"
    /\ unit = [NoCalls EXCEPT !.board = game_board, !.piece = falling_piece]

\* What a call outside a session leaves alone.
UnitFrame ==
    UNCHANGED <<pc, args, next_piece, moving_down, moving_left, moving_right,
                down_elapsed, sideways_elapsed, fall_elapsed, expired, lines,
                losses, seed, drawn, events_left, pieces_left, files_open,
                step>>

\* The first call on the board and the piece.
FirstCall(name) ==
    /\ pc = "unit"
    /\ unit.calls = <<>>
    /\ UnitFrame

CallRemoveCompleteLines ==
    /\ FirstCall("remove_complete_lines")
    /\ game_board' = remove_complete_lines(game_board).board
    /\ unit' = [unit EXCEPT !.calls = <<"remove_complete_lines">>,
                            !.result = remove_complete_lines(game_board).lines]
    /\ UNCHANGED falling_piece

CallReset ==
    /\ FirstCall("reset")
    /\ game_board' = reset(game_board)
    /\ unit' = [unit EXCEPT !.calls = <<"reset">>]
    /\ UNCHANGED falling_piece

\* is_valid_position(b, x, y), which legal_left, legal_right and legal_down
\* call with (-1, 0), (1, 0) and (0, 1).
CallIsValidPosition ==
    /\ FirstCall("is_valid_position")
    /\ \E adj \in {<<0, 0>>, <<-1, 0>>, <<1, 0>>, <<0, 1>>} :
          unit' = [unit EXCEPT
                      !.calls = <<"is_valid_position">>,
                      !.x = adj[1], !.y = adj[2],
                      !.verdict = is_valid_position(falling_piece, game_board,
                                                    adj[1], adj[2])]
    /\ UNCHANGED <<game_board, falling_piece>>

CallMoveLeft ==
    /\ FirstCall("move_left")
    /\ falling_piece' = move_left(falling_piece)
    /\ unit' = [unit EXCEPT !.calls = <<"move_left">>]
    /\ UNCHANGED game_board

CallMoveRight ==
    /\ FirstCall("move_right")
    /\ falling_piece' = move_right(falling_piece)
    /\ unit' = [unit EXCEPT !.calls = <<"move_right">>]
    /\ UNCHANGED game_board

CallMoveDown ==
    /\ FirstCall("move_down")
    /\ falling_piece' = move_down(falling_piece)
    /\ unit' = [unit EXCEPT !.calls = <<"move_down">>]
    /\ UNCHANGED game_board

CallMoveToBottom ==
    /\ FirstCall("move_to_bottom")
    /\ falling_piece' = move_to_bottom(falling_piece, game_board)
    /\ unit' = [unit EXCEPT !.calls = <<"move_to_bottom">>]
    /\ UNCHANGED game_board

\* add_to_board; verdict tells whether it raised IndexError.
CallAddToBoard ==
    /\ FirstCall("add_to_board")
    /\ game_board' = add_to_board(falling_piece, game_board).board
    /\ unit' = [unit EXCEPT
                   !.calls = <<"add_to_board">>,
                   !.verdict = add_to_board(falling_piece, game_board).raised]
    /\ UNCHANGED falling_piece

\* One more rotation after rotations only, clockwise and counterclockwise
\* in any order. accepted counts the calls that changed the orientation,
\* which are the calls that were not reverted on a kind with more than one
\* orientation.
Turn(name, turned) ==
    /\ pc = "unit"
    /\ Len(unit.calls) < MaxTurns
    /\ \A i \in 1..Len(unit.calls) :
          unit.calls[i] \in {"rotate_clockwise", "rotate_counterclockwise"}
    /\ falling_piece' = turned
    /\ unit' = [unit EXCEPT
                   !.calls = Append(unit.calls, name),
                   !.accepted = unit.accepted +
                       (IF turned.orientation # falling_piece.orientation
                        THEN 1 ELSE 0)]
    /\ UNCHANGED game_board
    /\ UnitFrame

CallRotateClockwise ==
    Turn("rotate_clockwise", rotate_clockwise(falling_piece, game_board))

CallRotateCounterclockwise ==
    Turn("rotate_counterclockwise",
         rotate_counterclockwise(falling_piece, game_board))

UnitNext ==
    \/ CallRemoveCompleteLines \/ CallReset \/ CallIsValidPosition
    \/ CallMoveLeft \/ CallMoveRight \/ CallMoveDown \/ CallMoveToBottom
    \/ CallAddToBoard \/ CallRotateClockwise \/ CallRotateCounterclockwise

UnitSpec == UnitInit /\ [][UnitNext]_vars

\* ------------------------------------------------------------------------
\* GameBoard(left, top, cell_size, columns, rows) for several columns and
\* rows, then is_on_board and reset on the board built (specification
\* DimSpec). args keeps the arguments of the constructor.

\* Bound: the calls made on one board.
MaxDimCalls == 2

DimColumns == {5, 7, DEFAULT_COLUMNS, 12}
DimRows == {5, 8, DEFAULT_ROWS, 22}

DimInit ==
    /\ pc = "dims"
    /\ \E c \in DimColumns, r \in DimRows :
          /\ args = [DefaultArgs EXCEPT !.columns = c, !.rows = r,
                                        !.duration = 0]
          /\ game_board = NewGameBoard(c, r)
    /\ falling_piece = NoPiece
    /\ next_piece = NoPiece
    /\ moving_down = FALSE
    /\ moving_left = FALSE
    /\ moving_right = FALSE
    /\ down_elapsed = 0
    /\ sideways_elapsed = 0
    /\ fall_elapsed = 0
    /\ expired = FALSE
    /\ lines = 0
    /\ losses = 0
    /\ seed = 1
    /\ drawn = 0
    /\ events_left = 0
    /\ pieces_left = 0
    /\ files_open = TRUE
    /\ step = "none"
    /\ unit = [NoCalls EXCEPT !.board = game_board]

\* The coordinates is_on_board is asked about: around each edge of the grid
\* built and of the default grid.
DimXs == {-1, 0, 4, 5, 6, 7, 9, 10, 11, 12}
DimYs == {-1, 0, 4, 5, 7, 8, 19, 20, 21, 22}

DimIsOnBoard ==
    /\ pc = "dims"
    /\ Len(unit.calls) < MaxDimCalls
    /\ \E x \in DimXs, y \in DimYs :
          unit' = [unit EXCEPT
                      !.calls = Append(unit.calls, "is_on_board"),
                      !.x = x, !.y = y,
                      !.verdict = is_on_board(game_board, x, y)]
    /\ UNCHANGED <<game_board, falling_piece>>
    /\ UNCHANGED <<pc, args, next_piece, moving_down, moving_left,
                   moving_right, down_elapsed, sideways_elapsed, fall_elapsed,
                   expired, lines, losses, seed, drawn, events_left,
                   pieces_left, files_open, step>>

DimReset ==
    /\ pc = "dims"
    /\ Len(unit.calls) < MaxDimCalls
    /\ game_board' = reset(game_board)
    /\ unit' = [unit EXCEPT !.calls = Append(unit.calls, "reset")]
    /\ UNCHANGED falling_piece
    /\ UNCHANGED <<pc, args, next_piece, moving_down, moving_left,
                   moving_right, down_elapsed, sideways_elapsed, fall_elapsed,
                   expired, lines, losses, seed, drawn, events_left,
                   pieces_left, files_open, step>>

\* Piece(b) on the board: the kinds and orientations do not matter for x, y.
DimNewPiece ==
    /\ pc = "dims"
    /\ Len(unit.calls) < MaxDimCalls
    /\ falling_piece = NoPiece
    /\ \E shape \in {"I", "T"} :
          falling_piece' = NewPiece(game_board, shape, 0, 0, 1)
    /\ unit' = [unit EXCEPT !.calls = Append(unit.calls, "Piece")]
    /\ UNCHANGED game_board
    /\ UNCHANGED <<pc, args, next_piece, moving_down, moving_left,
                   moving_right, down_elapsed, sideways_elapsed, fall_elapsed,
                   expired, lines, losses, seed, drawn, events_left,
                   pieces_left, files_open, step>>

DimNext == DimIsOnBoard \/ DimReset \/ DimNewPiece

DimSpec == DimInit /\ [][DimNext]_vars

\* ------------------------------------------------------------------------
\* calculate_level and calculate_fall_frequency applied to scores and levels
\* drawn from bounded sets (specification LevelSpec). unit.x and unit.y are
\* the arguments of the first and of the second call of calculate_level,
\* unit.accepted and unit.result the values they returned.

MaxScore == 400

LevelInit ==
    /\ pc = "levels"
    /\ args = DefaultArgs
    /\ game_board = NoBoard
    /\ falling_piece = NoPiece
    /\ next_piece = NoPiece
    /\ moving_down = FALSE
    /\ moving_left = FALSE
    /\ moving_right = FALSE
    /\ down_elapsed = 0
    /\ sideways_elapsed = 0
    /\ fall_elapsed = 0
    /\ expired = FALSE
    /\ lines = 0
    /\ losses = 0
    /\ seed = 1
    /\ drawn = 0
    /\ events_left = 0
    /\ pieces_left = 0
    /\ files_open = TRUE
    /\ step = "none"
    /\ unit = NoCalls

LevelFrame ==
    UNCHANGED <<pc, args, game_board, falling_piece, next_piece, moving_down,
                moving_left, moving_right, down_elapsed, sideways_elapsed,
                fall_elapsed, expired, lines, losses, seed, drawn,
                events_left, pieces_left, files_open, step>>

\* calculate_level(score) for a score of 0..MaxScore.
CallCalculateLevel ==
    /\ pc = "levels"
    /\ unit.calls = <<>>
    /\ \E score \in 0..MaxScore :
          unit' = [unit EXCEPT !.calls = <<"calculate_level">>,
                               !.x = score,
                               !.result = calculate_level(score)]
    /\ LevelFrame

\* A second call, for a larger score.
CallCalculateLevelAgain ==
    /\ pc = "levels"
    /\ unit.calls = <<"calculate_level">>
    /\ \E score \in {unit.x + 1, unit.x + LINES_PER_LEVEL - 1,
                      unit.x + LINES_PER_LEVEL, MaxScore + 1} :
          unit' = [unit EXCEPT
                      !.calls = <<"calculate_level", "calculate_level">>,
                      !.y = score,
                      !.accepted = unit.result,
                      !.result = calculate_level(score)]
    /\ LevelFrame

\* calculate_fall_frequency(level) for the level just returned.
CallCalculateFallFrequency ==
    /\ pc = "levels"
    /\ unit.calls = <<"calculate_level">>
    /\ unit' = [unit EXCEPT
                   !.calls = <<"calculate_level", "calculate_fall_frequency">>,
                   !.accepted = unit.result,
                   !.result = calculate_fall_frequency(unit.result)]
    /\ LevelFrame

LevelNext ==
    CallCalculateLevel \/ CallCalculateLevelAgain \/ CallCalculateFallFrequency

LevelSpec == LevelInit /\ [][LevelNext]_vars

\* ------------------------------------------------------------------------
\* The loop with keys held from the first iteration on and frames of two
\* lengths, the timers keeping the time elapsed up to MaxElapsed
\* (specification RepeatSpec). It starts where the loop stands after the
\* key-down events of a sideways key and, possibly, of the soft-drop key
\* have been handled for a new piece on a blank board.

RepeatStep == 50
MaxElapsed == 400

RepeatInit ==
    /\ pc = "held"
    /\ args = DefaultArgs
    /\ game_board = NewGameBoard(args.columns, args.rows)
    /\ moving_down \in BOOLEAN
    /\ moving_left \in BOOLEAN
    /\ moving_right = ~moving_left
    /\ \E shape \in {"O", "I", "T"} :
          \E orientation \in 0..NumOrientations(shape) - 1 :
             LET new == NewPiece(game_board, shape, orientation, 0, 1)
                 moved == IF moving_left THEN move_left(new)
                          ELSE move_right(new)
             IN  falling_piece =
                     IF moving_down THEN move_down(moved) ELSE moved
    /\ next_piece = NewPiece(game_board, "O", 0, 1, 2)
    /\ down_elapsed = 0
    /\ sideways_elapsed = 0
    /\ fall_elapsed = 0
    /\ expired = FALSE
    /\ lines = 0
    /\ losses = 0
    /\ seed = 1
    /\ drawn = 2
    /\ events_left = 0
    /\ pieces_left = MaxPieces
    /\ files_open = TRUE
    /\ step = "events_done"
    /\ unit = NoCalls

\* Lines 932-947 with a frame of RepeatStep or of FrameStep milliseconds,
\* before finish_time.
RepeatFrame ==
    /\ pc = "render"
    /\ \E passed \in {RepeatStep, FrameStep} :
          /\ down_elapsed' = Elapsed(down_elapsed + passed, MaxElapsed)
          /\ sideways_elapsed' = Elapsed(sideways_elapsed + passed, MaxElapsed)
          /\ fall_elapsed' = Elapsed(fall_elapsed + passed, MaxElapsed)
    /\ expired' = FALSE
    /\ pc' = "while"
    /\ step' = "frame"
    /\ UNCHANGED <<args, game_board, falling_piece, next_piece, moving_down,
                   moving_left, moving_right, lines, losses, seed, drawn,
                   events_left, pieces_left, files_open, unit>>

RepeatNext ==
    \/ NoSpawn \/ EventsDone \/ HeldKeys
    \/ GravityWait \/ GravityFall \/ GravityLand
    \/ RepeatFrame

RepeatSpec == RepeatInit /\ [][RepeatNext]_vars

\* ------------------------------------------------------------------------
\* Properties.

\* The board coordinates of the boxes of a piece.
Boxes(p) ==
    {<<x + p.x, y + p.y>> : <<x, y>> \in
        {c \in (0..TEMPLATE_WIDTH - 1) \X (0..TEMPLATE_HEIGHT - 1) :
            TemplateCell(p.shape, p.orientation, c[1], c[2]) # BLANK}}

\* Every cell of the grid is blank, and the grid has the size of the fields.
AllBlank(b) ==
    /\ Len(b.state) = b.columns
    /\ \A x \in 1..Len(b.state) :
          /\ Len(b.state[x]) = b.rows
          /\ \A y \in 1..Len(b.state[x]) : b.state[x][y] = BLANK

\* The rows of a default-sized board without a blank cell.
CompleteRows(b) ==
    {y \in 0..DEFAULT_ROWS - 1 :
        \A x \in 0..DEFAULT_COLUMNS - 1 : b.state[x + 1][y + 1] # BLANK}

Running == {"while", "events", "held", "gravity", "render"}

\* C1: when the piece promoted from next_piece does not fit at its spawn
\* position, the next step of the loop adds exactly 1 to losses, leaves
\* every cell of the board blank, clears the three held-key flags, makes two
\* newly constructed pieces the falling and the next piece, and goes on to
\* the events of the same iteration (the loop does not return).
C1_BlockedSpawnResets ==
    [][(/\ pc = "while"
        /\ ~expired
        /\ falling_piece = NoPiece
        /\ ~is_valid_position(next_piece, game_board, 0, 0))
       => (/\ losses' = losses + 1
           /\ AllBlank(game_board')
           /\ ~moving_left' /\ ~moving_right' /\ ~moving_down'
           /\ falling_piece' # NoPiece
           /\ falling_piece'.serial > drawn
           /\ next_piece'.serial > drawn
           /\ falling_piece'.serial # next_piece'.serial
           /\ falling_piece'.serial # next_piece.serial
           /\ pc' = "events")]_vars

\* A loss has just happened on a board that held landed pieces.
C1_Witness ==
    /\ step = "loss"
    /\ losses = 1
    /\ pc = "events"
    /\ AllBlank(game_board)
    /\ falling_piece.serial = drawn - 1
    /\ next_piece.serial = drawn

\* C2: unless a quit event is handled, a session whose arguments were
\* accepted stops only by returning, and returns only once the clock has
\* reached finish_time.
C2_StopsOnlyByReturning ==
    (ArgsAccepted(args) /\ pc \notin Running \cup {"call", "terminated"})
        => (pc = "returned" /\ expired)

C4_RemovesEveryCompleteLine ==
    (unit.calls = <<"remove_complete_lines">>)
        => /\ unit.result = Cardinality(CompleteRows(unit.board))
           /\ CompleteRows(game_board) = {}

\* The two lowest rows were complete, with a complete row 0 as well.
C4_Witness ==
    /\ unit.calls = <<"remove_complete_lines">>
    /\ {0, DEFAULT_ROWS - 2, DEFAULT_ROWS - 1} \subseteq CompleteRows(unit.board)
    /\ unit.result >= 3

\* C5: on a board without a complete row remove_complete_lines returns 0
\* and changes no cell.
C5_NothingToRemove ==
    (unit.calls = <<"remove_complete_lines">> /\ CompleteRows(unit.board) = {})
        => (unit.result = 0 /\ game_board = unit.board)

\* The call was made on a board with coloured cells and no complete row.
C5_Witness ==
    /\ unit.calls = <<"remove_complete_lines">>
    /\ CompleteRows(unit.board) = {}
    /\ \E x \in 1..DEFAULT_COLUMNS : unit.board.state[x][DEFAULT_ROWS] # BLANK
    /\ unit.result = 0

\* A box of the piece, on a row that is not above the board, lies outside
\* the default board or on a coloured cell.
Obstructed(p, b) ==
    \E c \in Boxes(p) :
        /\ c[2] >= 0
        /\ \/ ~(0 <= c[1] /\ c[1] < DEFAULT_COLUMNS /\ c[2] < DEFAULT_ROWS)
           \/ b.state[c[1] + 1][c[2] + 1] # BLANK

\* C6: is_valid_position(b, 0, 0) is false when a box of the piece with a
\* non-negative row overlaps a coloured cell or lies outside the board.
C6_ObstructedIsInvalid ==
    (/\ unit.calls = <<"is_valid_position">>
     /\ unit.x = 0 /\ unit.y = 0
     /\ Obstructed(unit.piece, unit.board))
        => ~unit.verdict

\* The obstruction is in a template column that is scanned before a later
\* column with boxes that are all free.
C6_Witness ==
    /\ unit.calls = <<"is_valid_position">>
    /\ unit.x = 0 /\ unit.y = 0
    /\ ~unit.verdict
    /\ \E c \in Boxes(unit.piece), d \in Boxes(unit.piece) :
          /\ c[1] < d[1]
          /\ c[2] >= 0 /\ d[2] >= 0
          /\ is_on_board(unit.board, c[1], c[2])
          /\ Cell(unit.board, c[1], c[2]) # BLANK
          /\ \A e \in Boxes(unit.piece) :
                e[1] = d[1] => /\ e[2] >= 0
                               /\ is_on_board(unit.board, e[1], e[2])
                               /\ Cell(unit.board, e[1], e[2]) = BLANK

\* The last call made on the board.
LastCall == IF unit.calls = <<>> THEN "none" ELSE unit.calls[Len(unit.calls)]

\* C7: on a board built with columns = c and rows = r, is_on_board(col, row)
\* is true exactly when 0 <= col < c and 0 <= row < r, the size of the grid
\* that was built.
C7_IsOnBoardMatchesGrid ==
    (pc = "dims" /\ unit.calls = <<"is_on_board">>)
        => /\ unit.verdict = (/\ 0 <= unit.x /\ unit.x < args.columns
                              /\ 0 <= unit.y /\ unit.y < args.rows)
           /\ Len(game_board.state) = args.columns
           /\ unit.verdict = (/\ 0 <= unit.x /\ unit.x < Len(game_board.state)
                              /\ 0 <= unit.y
                              /\ unit.y < Len(game_board.state[1]))

\* C8: after reset, once or more, the grid of a board built with columns = c
\* and rows = r has c columns of r cells, all blank.
C8_ResetKeepsDimensions ==
    (pc = "dims" /\ LastCall = "reset")
        => /\ Len(game_board.state) = args.columns
           /\ \A x \in 1..Len(game_board.state) :
                 /\ Len(game_board.state[x]) = args.rows
                 /\ \A y \in 1..Len(game_board.state[x]) :
                       game_board.state[x][y] = BLANK

\* C9: in a session every cell of the board holds BLANK or an index of
\* COLOURS, 0..3.
C9_CellsAreBlankOrColour ==
    \A x \in 1..Len(game_board.state) :
        \A y \in 1..Len(game_board.state[x]) :
            game_board.state[x][y] \in {BLANK} \cup (0..3)

\* A landing has removed a line and left a coloured cell of the landed
\* piece above it.
C9_Witness ==
    /\ step = "gravity_land"
    /\ lines >= 1
    /\ \E x \in 1..Len(game_board.state) :
          /\ game_board.state[x][DEFAULT_ROWS] \in 0..3
          /\ game_board.state[x][DEFAULT_ROWS - 1] = BLANK

\* Four calls of the same rotation have been made on a piece of a kind with
\* four orientations.
FourTurns(name) ==
    /\ unit.calls = <<name, name, name, name>>
    /\ NumOrientations(unit.piece.shape) = 4

\* C10 as stated: four rotate_clockwise calls in a row, or four
\* rotate_counterclockwise calls, return a J, L or T piece to its original
\* orientation on every board and at every position.
C10_FourTurnsRestore ==
    (FourTurns("rotate_clockwise") \/ FourTurns("rotate_counterclockwise"))
        => falling_piece.orientation = unit.piece.orientation

\* C10 amended: after the four calls the orientation is the original one
\* advanced (clockwise) or retreated (counterclockwise) by the number of
\* rotations that were not reverted, modulo 4; so it is the original one
\* when none of the four rotations is reverted, and x, y, shape and colour
\* are the original ones.
C10_FourAcceptedTurnsRestore ==
    /\ FourTurns("rotate_clockwise") =>
          /\ falling_piece.orientation =
                 (unit.piece.orientation + unit.accepted) % 4
          /\ (unit.accepted = 4 =>
                 falling_piece.orientation = unit.piece.orientation)
          /\ falling_piece = [unit.piece EXCEPT
                                 !.orientation = falling_piece.orientation]
    /\ FourTurns("rotate_counterclockwise") =>
          /\ falling_piece.orientation =
                 (unit.piece.orientation - unit.accepted) % 4
          /\ (unit.accepted = 4 =>
                 falling_piece.orientation = unit.piece.orientation)
          /\ falling_piece = [unit.piece EXCEPT
                                 !.orientation = falling_piece.orientation]

\* Four clockwise rotations of a piece next to landed boxes, none reverted.
C10_Witness ==
    /\ FourTurns("rotate_clockwise")
    /\ unit.accepted = 4
    /\ unit.piece.y >= 14
    /\ falling_piece.orientation = unit.piece.orientation

\* The piece with its orientation index moved by d modulo the number of
\* orientations of its kind.
Turned(p, d) ==
    [p EXCEPT !.orientation =
        (p.orientation + NumOrientations(p.shape) + d)
            % NumOrientations(p.shape)]

\* The piece a try/revert rotation by d must leave.
TryRevert(p, b, d) ==
    IF is_valid_position(Turned(p, d), b, 0, 0) THEN Turned(p, d) ELSE p

\* C11: rotate_clockwise(b) and rotate_counterclockwise(b) leave the
\* orientation as it was when the piece is not in a valid position with the
\* new orientation at the unchanged x, y, and otherwise advance (retreat) it
\* by one modulo the number of orientations of the kind; x, y, shape, colour
\* and the board are unchanged in both cases.
C11_RotationIsTryRevert ==
    /\ (unit.calls = <<"rotate_clockwise">>) =>
          /\ falling_piece = TryRevert(unit.piece, unit.board, 1)
          /\ game_board = unit.board
    /\ (unit.calls = <<"rotate_counterclockwise">>) =>
          /\ falling_piece = TryRevert(unit.piece, unit.board, -1)
          /\ game_board = unit.board

\* A counterclockwise rotation of a J, L or T piece in a valid position
\* next to landed boxes has been reverted.
C11_Witness ==
    /\ unit.calls = <<"rotate_counterclockwise">>
    /\ NumOrientations(unit.piece.shape) = 4
    /\ is_valid_position(unit.piece, unit.board, 0, 0)
    /\ ~is_valid_position(Turned(unit.piece, -1), unit.board, 0, 0)
    /\ unit.piece.y >= 14
    /\ falling_piece = unit.piece

\* C12: after move_to_bottom(b) on a piece in a valid position, a freshly
\* spawned one at y = -2 included, legal_down(b) is false, the piece is
\* still in a valid position, y has not decreased, and x, orientation and
\* the board are unchanged.
C12_MoveToBottomRests ==
    (/\ unit.calls = <<"move_to_bottom">>
     /\ is_valid_position(unit.piece, unit.board, 0, 0))
        => /\ ~legal_down(falling_piece, game_board)
           /\ is_valid_position(falling_piece, game_board, 0, 0)
           /\ falling_piece.y >= unit.piece.y
           /\ falling_piece = [unit.piece EXCEPT !.y = falling_piece.y]
           /\ game_board = unit.board

\* A piece at the spawn row has been dropped to the floor of a board
\* without landed boxes below it.
C12_Witness ==
    /\ unit.calls = <<"move_to_bottom">>
    /\ unit.piece.y = NEW_PIECES_START_Y
    /\ is_valid_position(unit.piece, unit.board, 0, 0)
    /\ falling_piece.y >= DEFAULT_ROWS - TEMPLATE_HEIGHT
    /\ ~legal_down(falling_piece, game_board)

\* The event name is being handled in this step.
Handling(name) ==
    pc = "events" /\ events_left' = events_left - 1 /\ step' = name

\* A gravity tick: the interval has elapsed at line 920.
GravityDue == pc = "gravity" /\ fall_elapsed > args.fall_frequency

\* C13: a key-down of MOVE_TO_BOTTOM moves the falling piece to the bottom
\* and does not land it: it is still the falling piece, the board and lines
\* are unchanged and the events go on; left, right and rotation events
\* handled while the piece rests at the bottom are still applied to it; the
\* board changes under a falling piece only at a gravity tick that finds
\* legal_down false.
C13_HardDropDoesNotLand ==
    [][/\ Handling("keydown_bottom") =>
            /\ falling_piece' = move_to_bottom(falling_piece, game_board)
            /\ falling_piece'.serial = falling_piece.serial
            /\ ~legal_down(falling_piece', game_board')
            /\ game_board' = game_board
            /\ lines' = lines
            /\ pc' = "events"
       /\ (Handling("keydown_left")
           /\ ~legal_down(falling_piece, game_board)
           /\ legal_left(falling_piece, game_board)) =>
            falling_piece' = [falling_piece EXCEPT !.x = falling_piece.x - 1]
       /\ (Handling("keydown_right")
           /\ ~legal_down(falling_piece, game_board)
           /\ legal_right(falling_piece, game_board)) =>
            falling_piece' = [falling_piece EXCEPT !.x = falling_piece.x + 1]
       /\ (Handling("keydown_clockwise")
           /\ ~legal_down(falling_piece, game_board)) =>
            falling_piece' = TryRevert(falling_piece, game_board, 1)
       /\ (Handling("keydown_counterclockwise")
           /\ ~legal_down(falling_piece, game_board)) =>
            falling_piece' = TryRevert(falling_piece, game_board, -1)
       /\ (falling_piece # NoPiece /\ game_board' # game_board) =>
            (GravityDue /\ ~legal_down(falling_piece, game_board))]_vars

\* In the first iteration of a piece, before any gravity tick or held-key
\* repeat, the piece was dropped from the spawn row to the floor and then
\* moved left by the next event of the same batch.
C13_Witness ==
    /\ step = "keydown_left"
    /\ pc = "events"
    /\ fall_elapsed = 0
    /\ falling_piece.y >= 10
    /\ falling_piece.x = (DEFAULT_COLUMNS \div 2) - (TEMPLATE_WIDTH \div 2) - 1
    /\ ~legal_down(falling_piece, game_board)
    /\ AllBlank(game_board)

\* C14: at a gravity tick, a falling piece for which legal_down is false is
\* merged into the board, the complete lines are removed and falling_piece
\* becomes None, so that the next iteration spawns; a piece for which
\* legal_down is true moves down exactly one row and is not merged. The
\* board never changes under a falling piece for which legal_down is true,
\* nor outside a gravity tick.
C14_GravityTick ==
    [][/\ (GravityDue /\ ~legal_down(falling_piece, game_board)) =>
            /\ falling_piece' = NoPiece
            /\ CompleteRows(game_board') = {}
            /\ pc' = "render"
       /\ (GravityDue /\ legal_down(falling_piece, game_board)) =>
            /\ falling_piece' = [falling_piece EXCEPT !.y = falling_piece.y + 1]
            /\ game_board' = game_board
       /\ (falling_piece # NoPiece /\ game_board' # game_board) =>
            (GravityDue /\ ~legal_down(falling_piece, game_board))
       /\ (pc = "while" /\ ~expired /\ falling_piece = NoPiece) =>
            falling_piece' # NoPiece]_vars

C16_LevelOfLines ==
    /\ (pc = "levels" /\ unit.calls = <<"calculate_level">>) =>
          /\ unit.result = (unit.x \div 10) + 1
          /\ (unit.x \in 0..9) => (unit.result = 1)
          /\ (unit.x \in 10..19) => (unit.result = 2)
    /\ (pc = "levels"
        /\ unit.calls = <<"calculate_level", "calculate_level">>) =>
          /\ unit.x <= unit.y
          /\ unit.accepted <= unit.result
          /\ unit.result = (unit.y \div 10) + 1

\* Level 1 was returned for 9 lines and level 2 for 10 lines.
C16_Witness ==
    /\ pc = "levels"
    /\ unit.calls = <<"calculate_level", "calculate_level">>
    /\ unit.x = 9 /\ unit.accepted = 1
    /\ unit.y = 10 /\ unit.result = 2

\* The promotion of lines 852-857 on the default board: the falling piece
\* is the previous next piece as it was constructed, a newly constructed
\* piece is the next one, and no event has been handled in between.
SpawnPromotesNext ==
    [][(/\ pc = "while"
        /\ ~expired
        /\ falling_piece = NoPiece
        /\ is_valid_position(next_piece, game_board, 0, 0))
       => (/\ falling_piece' = next_piece
           /\ falling_piece'.x = (DEFAULT_COLUMNS \div 2) - 2
           /\ falling_piece'.y = -2
           /\ next_piece'.serial = drawn + 1
           /\ next_piece'.serial > falling_piece'.serial
           /\ events_left' = events_left
           /\ game_board' = game_board
           /\ pc' = "events")]_vars

\* C17: a piece that is promoted from next to falling is at the spawn
\* position x = columns // 2 - 2, y = -2, where columns is the number of
\* columns the session's board was built with; it is the previous next
\* piece, never moved since it was constructed.
C17_SpawnPosition ==
    (pc = "dims" /\ LastCall = "Piece")
        => /\ falling_piece.x = (args.columns \div 2) - 2
           /\ falling_piece.y = -2

\* C18: a quit event seen while the events are drained aborts the loop at
\* once: the files are closed, the board, the pieces, the counters and the
\* held-key flags are left as they were, and nothing happens afterwards: no
\* later event, held-key repeat, gravity tick, merge, spawn or return.
C18_QuitAborts ==
    [][
        /\ pc # "terminated"
        /\ (pc = "events" /\ step' = "quit")
               => /\ pc' = "terminated"
                  /\ files_open' = FALSE
                  /\ UNCHANGED <<game_board, falling_piece, next_piece,
                                 lines, losses, drawn, moving_down,
                                 moving_left, moving_right>>
    ]_vars

\* A quit with a later event of the batch still pending and a piece falling.
C18_Witness ==
    /\ pc = "terminated"
    /\ step = "quit"
    /\ ~files_open
    /\ events_left >= 1
    /\ falling_piece # NoPiece

\* The configurations the claim calls malformed.
Malformed(a) ==
    \/ a.fps <= 0
    \/ a.columns <= 4
    \/ a.rows <= 4
    \/ a.top_exclude + a.bottom_exclude < 0
    \/ a.top_exclude + a.bottom_exclude >= 1000
    \/ a.left_exclude + a.right_exclude < 0
    \/ a.left_exclude + a.right_exclude >= 1000

\* C19: with a malformed configuration the session fails before the loop:
\* no board, no piece, no random draw, no iteration, no result.
C19_MalformedFailsFast ==
    (Malformed(args) /\ pc # "call")
        => /\ pc = "rejected"
           /\ step = "assert"
           /\ game_board = NoBoard
           /\ falling_piece = NoPiece
           /\ next_piece = NoPiece
           /\ drawn = 0
           /\ lines = 0
           /\ losses = 0

\* A session rejected for its exclusion proportions.
C19_Witness ==
    /\ pc = "rejected"
    /\ args.top_exclude + args.bottom_exclude >= 1000
    /\ args.columns > 4 /\ args.rows > 4 /\ args.fps > 0

\* C20: with a duration of 0 the session returns (0, 0) and no iteration
\* of the loop runs: after the set-up the only step is the return, the board
\* is blank, the two pieces are the ones the set-up constructed, and no
\* event has been taken.
C20_ZeroDurationReturns ==
    (args.duration = 0 /\ pc \notin {"call", "rejected"})
        => /\ pc \in {"while", "returned"}
           /\ step = (IF pc = "while" THEN "setup" ELSE "return")
           /\ expired
           /\ lines = 0
           /\ losses = 0
           /\ AllBlank(game_board)
           /\ drawn = 2
           /\ falling_piece.serial = 1 /\ falling_piece.y = -2
           /\ next_piece.serial = 2 /\ next_piece.y = -2
           /\ events_left \in {MaxEvents, 1}
           /\ fall_elapsed = 0
           /\ files_open

\* The session of duration 0 has returned.
C20_Witness ==
    /\ pc = "returned"
    /\ args.duration = 0
    /\ lines = 0 /\ losses = 0
    /\ events_left = MaxEvents
\* Only rotations have been called on the piece, at least one.
OnlyTurns ==
    /\ pc = "unit"
    /\ unit.calls # <<>>
    /\ \A i \in 1..Len(unit.calls) :
          unit.calls[i] \in {"rotate_clockwise", "rotate_counterclockwise"}

\* C21: after any sequence of rotate_clockwise and rotate_counterclockwise
\* calls, accepted or reverted, the orientation index of the piece is within
\* 0 .. n - 1, n being the number of orientations of its kind (1 for O, 2
\* for I, S and Z, 4 for J, L and T), so PIECES[shape][orientation] exists.
C21_OrientationInRange ==
    OnlyTurns
        => /\ falling_piece.orientation \in
                  0..(NumOrientations(falling_piece.shape) - 1)
           /\ falling_piece.orientation + 1
                  \in DOMAIN PIECES[falling_piece.shape]
           /\ NumOrientations(falling_piece.shape) =
                  CASE falling_piece.shape = "O" -> 1
                    [] falling_piece.shape \in {"I", "S", "Z"} -> 2
                    [] falling_piece.shape \in {"J", "L", "T"} -> 4

\* A counterclockwise rotation from orientation 0 was reverted and a
\* clockwise one after it was accepted, by a piece next to landed boxes.
C21_Witness ==
    /\ OnlyTurns
    /\ Len(unit.calls) >= 2
    /\ unit.calls[1] = "rotate_counterclockwise"
    /\ unit.calls[2] = "rotate_clockwise"
    /\ unit.piece.orientation = 0
    /\ NumOrientations(unit.piece.shape) = 4
    /\ ~is_valid_position(Turned(unit.piece, -1), unit.board, 0, 0)
    /\ is_valid_position(Turned(unit.piece, 1), unit.board, 0, 0)
    /\ unit.accepted >= 1
\* The piece of the call moved by the offsets of the call.
Offset(p) == [p EXCEPT !.x = p.x + unit.x, !.y = p.y + unit.y]

\* C22: is_valid_position(b, dx, dy) is true exactly when every box of the
\* piece whose offset row is >= 0 is on the board and on a blank cell; a box
\* whose offset row is < 0 does not count, whatever its offset column is,
\* and one failing box makes the result false whatever the other boxes are.
C22_ValidIffEveryBoxFree ==
    (unit.calls = <<"is_valid_position">>)
        => /\ unit.verdict = ~Obstructed(Offset(unit.piece), unit.board)
           /\ unit.verdict =
                  (\A c \in Boxes(Offset(unit.piece)) :
                      c[2] >= 0 =>
                          /\ is_on_board(unit.board, c[1], c[2])
                          /\ Cell(unit.board, c[1], c[2]) = BLANK)

\* A position is valid although a box above the board is beside it.
C22_Witness ==
    /\ unit.calls = <<"is_valid_position">>
    /\ unit.verdict
    /\ \E c \in Boxes(Offset(unit.piece)), d \in Boxes(Offset(unit.piece)) :
          /\ c[2] < 0
          /\ c[1] \notin 0..(DEFAULT_COLUMNS - 1)
          /\ d[2] >= 0

\* A position is invalid for a box in a template column scanned before a
\* column whose boxes are all free: the break left only the inner loop.
C22_EarlyExitWitness ==
    /\ unit.calls = <<"is_valid_position">>
    /\ unit.x = 1 /\ unit.y = 0
    /\ ~unit.verdict
    /\ \E c \in Boxes(Offset(unit.piece)), d \in Boxes(Offset(unit.piece)) :
          /\ c[1] < d[1]
          /\ c[2] >= 0
          /\ ~is_on_board(unit.board, c[1], c[2])
             \/ Cell(unit.board, c[1], c[2]) # BLANK
          /\ \A e \in Boxes(Offset(unit.piece)) :
                e[1] = d[1] => /\ e[2] >= 0
                               /\ is_on_board(unit.board, e[1], e[2])
                               /\ Cell(unit.board, e[1], e[2]) = BLANK
\* Row y of a default-sized board, column by column.
RowOf(b, y) == [x \in 0..DEFAULT_COLUMNS - 1 |-> b.state[x + 1][y + 1]]

\* The number of complete rows of the board below row y.
CompleteBelow(b, y) == Cardinality({c \in CompleteRows(b) : c > y})

\* C23: after remove_complete_lines() has returned k, every row that was
\* not complete is found, cell for cell, lower by the number of complete
\* rows that were below it (so the kept rows are in their original order
\* from the bottom up), and the k rows at the top are blank; with exactly
\* one complete row, the rows above it are one row lower, the rows below it
\* are where they were and row 0 is blank.
C23_KeptRowsInOrder ==
    (unit.calls = <<"remove_complete_lines">>)
        => LET old == unit.board
               k == unit.result
           IN  /\ k = Cardinality(CompleteRows(old))
               /\ \A y \in (0..DEFAULT_ROWS - 1) \ CompleteRows(old) :
                     RowOf(game_board, y + CompleteBelow(old, y)) =
                         RowOf(old, y)
               /\ \A y \in 0..k - 1 :
                     \A x \in 0..DEFAULT_COLUMNS - 1 :
                         RowOf(game_board, y)[x] = BLANK
               /\ \A c \in CompleteRows(old) :
                     CompleteRows(old) = {c} =>
                        /\ \A y \in 0..c - 1 :
                              RowOf(game_board, y + 1) = RowOf(old, y)
                        /\ \A y \in c + 1..DEFAULT_ROWS - 1 :
                              RowOf(game_board, y) = RowOf(old, y)
                        /\ \A x \in 0..DEFAULT_COLUMNS - 1 :
                              RowOf(game_board, 0)[x] = BLANK

\* Exactly one row was complete, with a coloured row 0, rows of different
\* contents above it and a row below it.
C23_Witness ==
    /\ unit.calls = <<"remove_complete_lines">>
    /\ CompleteRows(unit.board) = {DEFAULT_ROWS - 2}
    /\ unit.result = 1
    /\ RowOf(unit.board, 0) # RowOf(game_board, 0)
    /\ RowOf(unit.board, DEFAULT_ROWS - 3) # RowOf(unit.board, DEFAULT_ROWS - 1)
    /\ RowOf(game_board, DEFAULT_ROWS - 2) = RowOf(unit.board, DEFAULT_ROWS - 3)
    /\ RowOf(game_board, 1) = RowOf(unit.board, 0)
    /\ \E x \in 0..DEFAULT_COLUMNS - 1 :
          RowOf(unit.board, DEFAULT_ROWS - 1)[x] # BLANK
\* C24: for the level of every total of lines cleared (level = lines // 10
\* + 1), calculate_fall_frequency(level) is strictly positive.
C24_IntervalPositive ==
    (/\ pc = "levels"
     /\ unit.calls = <<"calculate_level", "calculate_fall_frequency">>)
        => /\ unit.accepted = (unit.x \div LINES_PER_LEVEL) + 1
           /\ unit.result > 0
\* The step of lines 910-919.
HeldStep == pc = "held" /\ pc' = "gravity"

\* The step restarted the sideways timer: the sideways interval had elapsed.
SidewaysRepeated ==
    /\ moving_left \/ moving_right
    /\ sideways_elapsed # 0
    /\ sideways_elapsed' = 0

\* The step moved the piece down: the soft-drop interval had elapsed.
DownRepeated ==
    /\ moving_down
    /\ falling_piece'.y = falling_piece.y + 1
    /\ down_elapsed' = 0

\* Both kinds of key are held and the piece could move down.
BothHeld ==
    /\ HeldStep
    /\ moving_down
    /\ moving_left \/ moving_right
    /\ legal_down(AfterSideways(falling_piece, game_board), game_board)

\* C25 as stated: the interval applied to held left/right is strictly
\* shorter than the one applied to held down, so that when the soft drop is
\* repeated and the sideways timer has run at least as long as the
\* soft-drop timer, the sideways move is repeated as well.
C25_SidewaysRepeatsFaster ==
    [][
        (BothHeld /\ down_elapsed <= sideways_elapsed /\ DownRepeated)
            => SidewaysRepeated
    ]_vars

\* C25 amended: the interval applied to held down is the shorter one. When
\* the sideways move is repeated and the soft-drop timer has run at least as
\* long as the sideways timer, the soft drop is repeated as well.
C25_DownRepeatsFaster ==
    [][
        (BothHeld /\ sideways_elapsed <= down_elapsed /\ SidewaysRepeated)
            => DownRepeated
    ]_vars

\* Both timers had run for the same time, longer than the soft-drop
\* interval and not longer than the sideways interval: the soft drop has
\* been repeated and the sideways move has not.
C25_Witness ==
    /\ pc = "gravity"
    /\ step = "held"
    /\ moving_down
    /\ moving_left \/ moving_right
    /\ down_elapsed = 0
    /\ sideways_elapsed > MOVE_DOWN_FREQUENCY
    /\ sideways_elapsed <= MOVE_SIDEWAYS_FREQUENCY
    /\ fall_elapsed = sideways_elapsed
    /\ falling_piece.y = NEW_PIECES_START_Y + 2
\* The gravity tick is about to merge the falling piece (lines 921-923).
Landing ==
    /\ pc = "gravity"
    /\ fall_elapsed > FallInterval
    /\ ~legal_down(falling_piece, game_board)

\* C26: whenever a landed piece is merged into the board, every box of the
\* piece has 0 <= column < columns and 0 <= row < rows and lies on a cell
\* that is blank just before the merge, so that add_to_board changes the
\* cells of the piece's boxes and no other cell.
C26_MergeInsideBoard ==
    Landing
        => /\ \A c \in Boxes(falling_piece) :
                 /\ 0 <= c[1] /\ c[1] < DEFAULT_COLUMNS
                 /\ 0 <= c[2] /\ c[2] < DEFAULT_ROWS
                 /\ game_board.state[c[1] + 1][c[2] + 1] = BLANK
           /\ ~add_to_board(falling_piece, game_board).raised
           /\ \A x \in 0..DEFAULT_COLUMNS - 1, y \in 0..DEFAULT_ROWS - 1 :
                 add_to_board(falling_piece, game_board).board
                         .state[x + 1][y + 1] =
                     IF <<x, y>> \in Boxes(falling_piece)
                     THEN falling_piece.colour
                     ELSE game_board.state[x + 1][y + 1]
\* C27: from the end of the spawn step until the gravity step of every
\* iteration there is a falling piece and is_valid_position(board, 0, 0)
\* holds for it: none of its boxes on a row >= 0 is off the board or on a
\* coloured cell, whatever key-down moves, rotations, hard drops, held-key
\* repeats and gravity moves came before; so no event is applied to an
\* absent piece.
C27_FallingPieceStaysValid ==
    (pc \in {"events", "held", "gravity"})
        => /\ falling_piece # NoPiece
           /\ is_valid_position(falling_piece, game_board, 0, 0)
           /\ ~Obstructed(falling_piece, game_board)

\* A piece that was moved by the player rests on landed boxes, beside other
\* landed boxes, when the gravity step is reached.
C27_Witness ==
    /\ pc = "gravity"
    /\ step = "held"
    /\ events_left = 0
    /\ falling_piece # NoPiece
    /\ falling_piece.x # (DEFAULT_COLUMNS \div 2) - (TEMPLATE_WIDTH \div 2)
    /\ falling_piece.y > 0
    /\ ~legal_down(falling_piece, game_board)
    /\ ~AllBlank(game_board)
\* C28: inside the loop the cells of the board change only in the step of
\* a gravity tick that merges a landed piece and removes the complete
\* lines, and in the reset of a blocked spawn; draining an event, the
\* held-key repeats, the gravity move of a piece that has not landed and
\* the frame leave every cell as it is.
C28_BoardChangesOnlyTwice ==
    [][
        /\ (pc # "call" /\ game_board' # game_board)
              => \/ Landing /\ step' \in {"gravity_land", "index_error"}
                 \/ /\ pc = "while"
                    /\ falling_piece = NoPiece
                    /\ ~is_valid_position(next_piece, game_board, 0, 0)
                    /\ step' = "loss"
        /\ (pc \in {"events", "held"} \/ step' \in {"gravity_fall",
                "gravity_wait", "frame", "spawn", "nospawn", "return"})
              => game_board' = game_board
    ]_vars

\* A rotation has been handled next to landed boxes and the board is the
\* one the last landing left.
C28_Witness ==
    /\ pc = "events"
    /\ step \in {"keydown_clockwise", "keydown_counterclockwise",
                 "keydown_bottom"}
    /\ ~AllBlank(game_board)
    /\ falling_piece # NoPiece
    /\ falling_piece.y > 0
\* The gravity interval has elapsed for the falling piece (line 920).
Tick == pc = "gravity" /\ fall_elapsed > FallInterval

\* C29: the row of the falling piece never decreases while it is the
\* falling piece, and every gravity tick either moves it down by one row or
\* merges it into the board; a piece has had at most y + 2 ticks when it
\* is on row y, so it is merged within rows + 2 ticks whatever the player
\* does.
C29_NeverUpAndLands ==
    [][
        /\ (/\ falling_piece # NoPiece
            /\ falling_piece' # NoPiece
            /\ falling_piece'.serial = falling_piece.serial)
              => falling_piece'.y >= falling_piece.y
        /\ Tick
              => \/ /\ step' = "gravity_fall"
                    /\ falling_piece' = move_down(falling_piece)
                    /\ falling_piece'.y + 3 <= DEFAULT_ROWS + 2
                 \/ /\ step' = "gravity_land"
                    /\ falling_piece' = NoPiece
                    /\ falling_piece.y + 3 <= DEFAULT_ROWS + 2
                    /\ \A c \in Boxes(falling_piece) :
                          add_to_board(falling_piece, game_board).board
                              .state[PyIndex(game_board.state, c[1])]
                                    [PyIndex(game_board.state[1], c[2])]
                                  = falling_piece.colour
    ]_vars
\* The three held flags.
held == <<moving_left, moving_right, moving_down>>

\* C30: moving_left and moving_right are never both set; a key-down of
\* left, right or soft drop whose move is not legal moves nothing and
\* changes no held flag, and a legal one moves the piece and sets its flag
\* (left and right clearing each other); a key-up clears the flag of its
\* own direction only; a hard drop and a loss clear the three flags.
C30_HeldFlags ==
    [][
          /\ ~(moving_left /\ moving_right)
          /\ ~(moving_left' /\ moving_right')
          /\ (pc = "events" /\ step' = "keydown_left") =>
                IF legal_left(falling_piece, game_board)
                THEN /\ falling_piece' = move_left(falling_piece)
                     /\ held' = <<TRUE, FALSE, moving_down>>
                ELSE falling_piece' = falling_piece /\ held' = held
          /\ (pc = "events" /\ step' = "keydown_right") =>
                IF legal_right(falling_piece, game_board)
                THEN /\ falling_piece' = move_right(falling_piece)
                     /\ held' = <<FALSE, TRUE, moving_down>>
                ELSE falling_piece' = falling_piece /\ held' = held
          /\ (pc = "events" /\ step' = "keydown_down") =>
                IF legal_down(falling_piece, game_board)
                THEN /\ falling_piece' = move_down(falling_piece)
                     /\ held' = <<moving_left, moving_right, TRUE>>
                ELSE falling_piece' = falling_piece /\ held' = held
          /\ (pc = "events" /\ step' = "keyup_left") =>
                held' = <<FALSE, moving_right, moving_down>>
          /\ (pc = "events" /\ step' = "keyup_right") =>
                held' = <<moving_left, FALSE, moving_down>>
          /\ (pc = "events" /\ step' = "keyup_down") =>
                held' = <<moving_left, moving_right, FALSE>>
          /\ (pc = "events" /\ step' = "keydown_bottom") =>
                held' = <<FALSE, FALSE, FALSE>>
          /\ (pc = "while" /\ step' = "loss") =>
                held' = <<FALSE, FALSE, FALSE>>
    ]_vars

\* A soft-drop key-down that was not legal, after a hard drop, has been
\* handled: the piece is where it was and moving_down is not set.
C30_Witness ==
    /\ pc = "events"
    /\ step = "keydown_down"
    /\ events_left = 0
    /\ falling_piece # NoPiece
    /\ ~legal_down(falling_piece, game_board)
    /\ ~moving_down
====
